---- MODULE Spec2Model ----
(***************************************************************************)
(* Onboarding wizard of the tax-filing assistant: the wizard controller    *)
(* (pages/Onboarding.tsx), the method strategy selector (FormFilling, in   *)
(* its two generations) and the acquisition strategies it mounts.          *)
(*                                                                         *)
(* One action is one React event handler (or timer callback) together with *)
(* the render and the effects that follow it.  A handler reads the state   *)
(* of the render that created it (the unprimed variables) and its setState *)
(* calls are batched: the last write to a piece of state wins.             *)
(***************************************************************************)
EXTENDS Integers, Sequences, FiniteSets, TLC

VARIABLES
  variant,              \* which generation of the selector / manual form is built
  activeSection,        \* Onboarding: useState("form")
  activeStep,           \* Onboarding: useState("select-type")
  selectedForm,         \* Onboarding: useState(null)
  selectedMethod,       \* Onboarding: useState(null)
  progress,             \* Onboarding: useState(0), after the effects have run
  localSelectedForm,    \* FormFilling.tsx: its own useState(null)
  localSelectedMethod,  \* FormFilling.tsx: its own useState(null)
  showAiChat, showManualForm, showUploadForm, showIdLookup,
  man,                  \* state of the mounted ManualFormFilling
  chat,                 \* state of the mounted AiChatAssistant
  upl,                  \* state of the mounted FormUpload
  lk,                   \* state of the mounted IdLookup
  ev,                   \* the handler run by the last step
  calls,                \* the callbacks that handler invoked, in order
  revoked,              \* the URLs the last step passed to URL.revokeObjectURL
  prevStep,             \* activeStep as the last handler read it
  completed,            \* the strategy shown has had its onComplete handled
  orphans,              \* the timers of discarded upload and lookup views,
                        \* where they are watched
  mrg,                  \* a call of mergeDeep: its arguments and its results
  sheet                 \* one tab of the manual form with its full field table

wizardVars   == <<activeSection, activeStep, selectedForm, selectedMethod, progress>>
selectorVars == <<localSelectedForm, localSelectedMethod,
                  showAiChat, showManualForm, showUploadForm, showIdLookup>>
vars == <<variant, wizardVars, selectorVars, man, chat, upl, lk, ev, calls,
          revoked, prevStep, completed, orphans, mrg, sheet>>

----------------------------------------------------------------------------
(* Static catalogs *)

Null == "null"

sidebarItems == {"form", "profile", "history", "support"}

formSteps == <<"select-type", "select-method", "fill-form",
               "review", "confirm", "generate">>

taxFormTypes == {"modelo100", "modelo303", "modelo130", "modelo714"}

formTypes == {"modelo100", "modelo303", "modelo349", "modelo390"}

formMethods == {"manual", "ai", "upload", "lookup"}

Variants == {"local", "lifted"}

\* JavaScript truthiness of a string | null
Truthy(x) == x # Null /\ x # ""

----------------------------------------------------------------------------
(* Wizard controller *)

\* formSteps.findIndex(step => step.id === s), 0-based
StepIndex(s) == (CHOOSE i \in 1..Len(formSteps) : formSteps[i] = s) - 1

\* Math.round(n / d) for n >= 0, d > 0
MathRound(n, d) == (2 * n + d) \div (2 * d)

\* the effect at Onboarding.tsx:147: progress of the step now displayed
StepProgress(s) == MathRound((StepIndex(s) + 1) * 100, Len(formSteps))

\* The writes a handler has queued on the wizard's and the selector's state,
\* starting from the state of the current render
Pending == [activeStep |-> activeStep, selectedForm |-> selectedForm,
            selectedMethod |-> selectedMethod, progress |-> progress,
            localSelectedForm |-> localSelectedForm,
            localSelectedMethod |-> localSelectedMethod,
            showAiChat |-> showAiChat, showManualForm |-> showManualForm,
            showUploadForm |-> showUploadForm, showIdLookup |-> showIdLookup,
            calls |-> <<>>]

Called(st, f) == [st EXCEPT !.calls = Append(@, f)]

\* handleNextStep with the last step wrapping round to the first
handleNextStep_Wraps(st) ==
  LET currentIndex == StepIndex(activeStep)
      st1 == Called(st, "handleNextStep") IN
  IF currentIndex < Len(formSteps) - 1
    THEN [st1 EXCEPT !.activeStep = formSteps[currentIndex + 2]]
    ELSE [st1 EXCEPT !.activeStep = formSteps[1]]

handleNextStep(st) ==
  LET currentIndex == StepIndex(activeStep)
      st1 == Called(st, "handleNextStep") IN
  IF currentIndex < Len(formSteps) - 1
    THEN [st1 EXCEPT !.activeStep = formSteps[currentIndex + 2]]
    ELSE st1

\* handlePreviousStep with its guard off by one
handlePreviousStep_GuardOffByOne(st) ==
  LET currentIndex == StepIndex(activeStep)
      st1 == Called(st, "handlePreviousStep") IN
  IF currentIndex > 1
    THEN [st1 EXCEPT !.activeStep = formSteps[currentIndex],
                     !.progress = MathRound(currentIndex * 100, Len(formSteps))]
    ELSE st1

handlePreviousStep(st) ==
  LET currentIndex == StepIndex(activeStep)
      st1 == Called(st, "handlePreviousStep") IN
  IF currentIndex > 0
    THEN [st1 EXCEPT !.activeStep = formSteps[currentIndex],
                     !.progress = MathRound(currentIndex * 100, Len(formSteps))]
    ELSE st1

handleFormSelection(st, formId) ==
  LET st1 == [st EXCEPT !.selectedForm = formId] IN
  IF activeStep = "select-type" THEN handleNextStep(st1) ELSE st1

handleMethodSelection(st, methodId) ==
  LET st1 == [st EXCEPT !.selectedMethod = methodId] IN
  IF activeStep = "select-method" THEN handleNextStep(st1) ELSE st1

\* setStep prop: (newStep) => setActiveStep(newStep === "form-type" ? ...)
setStep(st, newStep) ==
  [st EXCEPT !.activeStep = IF newStep = "form-type" THEN "select-type"
                                                     ELSE "select-method"]

\* step prop handed to FormFilling
Step == IF activeStep = "select-type" THEN "form-type" ELSE "form-method"

\* the wizard without its step-change effect
ProgressEffect_Stale(st) == st.progress

\* The step-change effect, run after the render that follows the handler
ProgressEffect(st) ==
  IF st.activeStep # activeStep THEN StepProgress(st.activeStep) ELSE st.progress

----------------------------------------------------------------------------
(* Method strategy selector: FormFilling.tsx keeps the selections in its   *)
(* own state ("local"); the later FormFilling receives them as props from  *)
(* the wizard ("lifted").                                                  *)

SelForm   == IF variant = "local" THEN localSelectedForm ELSE selectedForm
SelMethod == IF variant = "local" THEN localSelectedMethod ELSE selectedMethod

Catalog == IF variant = "local" THEN formTypes ELSE taxFormTypes

onNext(st)     == handleNextStep(Called(st, "onNext"))
onPrevious(st) == handlePreviousStep(Called(st, "onPrevious"))

onFormSelect(st, formId) ==
  IF variant = "local"
    THEN [st EXCEPT !.localSelectedForm = formId]
    ELSE handleFormSelection(Called(st, "onFormSelect"), formId)

\* setSelectedMethod(x) of FormFilling.tsx, onMethodSelect(x) of the later one
onMethodSelect(st, methodId) ==
  IF variant = "local"
    THEN [st EXCEPT !.localSelectedMethod = methodId]
    ELSE handleMethodSelection(Called(st, "onMethodSelect"), methodId)

HideAll(st) ==
  [st EXCEPT !.showAiChat = FALSE, !.showManualForm = FALSE,
             !.showUploadForm = FALSE, !.showIdLookup = FALSE]

handleFormTypeSelect(st, formId) == onFormSelect(st, formId)

\* handleMethodSelect without the reset of the four views
handleMethodSelect_NoReset(st, methodId) ==
  LET st1 == onMethodSelect(st, methodId) IN
  CASE methodId = "ai"     -> [st1 EXCEPT !.showAiChat = TRUE]
    [] methodId = "manual" -> [st1 EXCEPT !.showManualForm = TRUE]
    [] methodId = "upload" -> [st1 EXCEPT !.showUploadForm = TRUE]
    [] methodId = "lookup" -> [st1 EXCEPT !.showIdLookup = TRUE]
    [] OTHER               -> st1

handleMethodSelect(st, methodId) ==
  LET st1 == HideAll(onMethodSelect(st, methodId)) IN
  CASE methodId = "ai"     -> [st1 EXCEPT !.showAiChat = TRUE]
    [] methodId = "manual" -> [st1 EXCEPT !.showManualForm = TRUE]
    [] methodId = "upload" -> [st1 EXCEPT !.showUploadForm = TRUE]
    [] methodId = "lookup" -> [st1 EXCEPT !.showIdLookup = TRUE]
    [] OTHER               -> st1

\* handleContinue whose phase 2 also drops the method selection
handleContinue_ClearsMethod(st) ==
  IF Step = "form-type" /\ Truthy(SelForm)
    THEN HideAll(onMethodSelect(setStep(st, "form-method"),
                                IF variant = "local" THEN Null ELSE ""))
  ELSE IF Step = "form-method" /\ Truthy(SelMethod)
    THEN IF SelMethod = "ai" THEN st
         ELSE [onNext(st) EXCEPT !.localSelectedMethod = Null,
                                 !.selectedMethod = Null]
  ELSE st

\* handleContinue whose phase 1 does not ask for a selected form
handleContinue_Unguarded(st) ==
  IF Step = "form-type"
    THEN HideAll(onMethodSelect(setStep(st, "form-method"),
                                IF variant = "local" THEN Null ELSE ""))
  ELSE IF Step = "form-method" /\ Truthy(SelMethod)
    THEN IF SelMethod = "ai" THEN st ELSE onNext(st)
  ELSE st

handleContinue(st) ==
  IF Step = "form-type" /\ Truthy(SelForm)
    THEN HideAll(onMethodSelect(setStep(st, "form-method"),
                                IF variant = "local" THEN Null ELSE ""))
  ELSE IF Step = "form-method" /\ Truthy(SelMethod)
    THEN IF SelMethod = "ai" THEN st ELSE onNext(st)
  ELSE st

handleCancel(st) ==
  HideAll(onMethodSelect(Called(st, "onCancel"),
                         IF variant = "local" THEN Null ELSE ""))

handleComplete(st) == onNext(Called(st, "onComplete"))

\* onClick of "Back to Form Types"
backToFormTypes(st) == HideAll(setStep(st, "form-type"))

\* The main card (the two grids and the footer) is rendered
GridVisible ==
  activeSection = "form" /\ ~showManualForm /\ ~showUploadForm /\ ~showIdLookup

\* formType prop of the strategies: selectedForm || ""
FormTypeProp == IF Truthy(SelForm) THEN SelForm ELSE ""

----------------------------------------------------------------------------
(* Which strategy component the selector renders *)

ManualMountedIn(section, st) == section = "form" /\ st.showManualForm

ChatMountedIn(section, st) ==
  /\ section = "form"
  /\ ~st.showManualForm /\ ~st.showUploadForm /\ ~st.showIdLookup
  /\ st.activeStep # "select-type"
  /\ st.showAiChat

UploadMountedIn(section, st) ==
  section = "form" /\ ~st.showManualForm /\ st.showUploadForm

LookupMountedIn(section, st) ==
  /\ section = "form"
  /\ ~st.showManualForm /\ ~st.showUploadForm
  /\ st.showIdLookup

ManualMounted == ManualMountedIn(activeSection, Pending)
ChatMounted   == ChatMountedIn(activeSection, Pending)
UploadMounted == UploadMountedIn(activeSection, Pending)
LookupMounted == LookupMountedIn(activeSection, Pending)

----------------------------------------------------------------------------
(* Strings the user can type, as the characters the validators inspect *)

Digits  == {"0", "1", "2", "3", "4", "5", "6", "7", "8", "9"}
Letters == {"a", "b", "c", "l", "A", "L", "X", "Y", "Z", "x", "y", "z"}

Chars(s) ==
  CASE s = ""          -> <<>>
    [] s = "0"         -> <<"0">>
    [] s = "100"       -> <<"1", "0", "0">>
    [] s = "30000"     -> <<"3", "0", "0", "0", "0">>
    [] s = "abc"       -> <<"a", "b", "c">>
    [] s = "12345678A" -> <<"1", "2", "3", "4", "5", "6", "7", "8", "A">>
    [] s = "X1234567L" -> <<"X", "1", "2", "3", "4", "5", "6", "7", "L">>
    [] s = "x1234567l" -> <<"x", "1", "2", "3", "4", "5", "6", "7", "l">>
    [] s = "1990-05-15" -> <<"1", "9", "9", "0", "-", "0", "5", "-", "1", "5">>
    [] s = "1990-13-45" -> <<"1", "9", "9", "0", "-", "1", "3", "-", "4", "5">>
    [] s = "99.5"      -> <<"9", "9", ".", "5">>
    [] s = "123456789" -> <<"1", "2", "3", "4", "5", "6", "7", "8", "9">>
    [] s = "1234"      -> <<"1", "2", "3", "4">>
    [] s = " "         -> <<" ">>
    [] s = "hola"      -> <<"h", "o", "l", "a">>
    [] s = "listo"     -> <<"l", "i", "s", "t", "o">>
    [] s = "Listo."    -> <<"L", "i", "s", "t", "o", ".">>
    [] s = "terminar"  -> <<"t", "e", "r", "m", "i", "n", "a", "r">>
    [] s = "finalizar" -> <<"f", "i", "n", "a", "l", "i", "z", "a", "r">>
    [] s = "completar" -> <<"c", "o", "m", "p", "l", "e", "t", "a", "r">>
    [] s = "acabar"    -> <<"a", "c", "a", "b", "a", "r">>
    [] s = "acabé"     -> <<"a", "c", "a", "b", "é">>
    [] s = "terminé"   -> <<"t", "e", "r", "m", "i", "n", "é">>
    [] s = "¿Qué es el Modelo 100?" ->
         <<"¿", "Q", "u", "é", " ", "e", "s", " ", "e", "l", " ",
           "M", "o", "d", "e", "l", "o", " ", "1", "0", "0", "?">>

AllIn(cs, from, to, S) == \A i \in from..to : cs[i] \in S

\* /^[0-9]{8}[a-zA-Z]$/
dniRegex(cs) == Len(cs) = 9 /\ AllIn(cs, 1, 8, Digits) /\ cs[9] \in Letters

\* /^[XYZxyz][0-9]{7}[a-zA-Z]$/
nieRegex(cs) ==
  /\ Len(cs) = 9
  /\ cs[1] \in {"X", "Y", "Z", "x", "y", "z"}
  /\ AllIn(cs, 2, 8, Digits)
  /\ cs[9] \in Letters

\* String.prototype.trim() leaves nothing
IsBlank(cs) == \A i \in 1..Len(cs) : cs[i] = " "

\* String.prototype.toLowerCase(), on the letters the inputs use
ToLowerChar(c) ==
  CASE c = "A" -> "a" [] c = "L" -> "l" [] c = "M" -> "m" [] c = "Q" -> "q"
    [] c = "X" -> "x" [] c = "Y" -> "y" [] c = "Z" -> "z" [] OTHER -> c

toLowerCase(cs) == [i \in 1..Len(cs) |-> ToLowerChar(cs[i])]

\* String.prototype.toUpperCase(), on the letters the inputs use
ToUpperChar(c) ==
  CASE c = "a" -> "A" [] c = "b" -> "B" [] c = "c" -> "C" [] c = "l" -> "L"
    [] c = "x" -> "X" [] c = "y" -> "Y" [] c = "z" -> "Z" [] OTHER -> c

toUpperCase(cs) == [i \in 1..Len(cs) |-> ToUpperChar(cs[i])]

DigitVal(c) ==
  CASE c = "0" -> 0 [] c = "1" -> 1 [] c = "2" -> 2 [] c = "3" -> 3
    [] c = "4" -> 4 [] c = "5" -> 5 [] c = "6" -> 6 [] c = "7" -> 7
    [] c = "8" -> 8 [] c = "9" -> 9

\* !isNaN(new Date(val).getTime()) on what an <input type="date"> holds:
\* a date-only string yyyy-mm-dd is a date when its month is 01..12 and its
\* day 01..31 names a day of a month, anything else gives an Invalid Date
DateParses(cs) ==
  /\ Len(cs) = 10
  /\ cs[5] = "-" /\ cs[8] = "-"
  /\ \A i \in {1, 2, 3, 4, 6, 7, 9, 10} : cs[i] \in Digits
  /\ LET month == 10 * DigitVal(cs[6]) + DigitVal(cs[7])
         day   == 10 * DigitVal(cs[9]) + DigitVal(cs[10]) IN
     month \in 1..12 /\ day \in 1..31

\* String.prototype.includes(ps)
includes(cs, ps) ==
  \E k \in 0..(Len(cs) - Len(ps)) : \A j \in 1..Len(ps) : cs[k + j] = ps[j]

\* isNaN(parseFloat(s)): parseFloat reads the longest numeric prefix
\* (optional sign, digits, optional fraction) and is NaN when there is none
IsNaNParseFloat(cs) ==
  LET body == IF Len(cs) > 0 /\ cs[1] \in {"+", "-"} THEN Tail(cs) ELSE cs IN
  ~ \/ (Len(body) >= 1 /\ body[1] \in Digits)
    \/ (Len(body) >= 2 /\ body[1] = "." /\ body[2] \in Digits)

\* The value of an <input type="number"> that holds `text`: the text when
\* it is a valid floating-point number (sign, digits, fraction), else ""
NumberInputValue(text) ==
  LET cs   == Chars(text)
      body == IF Len(cs) > 0 /\ cs[1] = "-" THEN Tail(cs) ELSE cs
      dots == {i \in 1..Len(body) : body[i] = "."} IN
  IF /\ Len(body) >= 1
     /\ \A i \in 1..Len(body) : body[i] \in Digits \cup {"."}
     /\ Cardinality(dots) <= 1
     /\ \A i \in dots : i < Len(body)
    THEN text ELSE ""

\* Numbers are kept in hundredths, the step of the currency inputs
NaN == [nan |-> TRUE, val |-> 0]

Num(hundredths) == [nan |-> FALSE, val |-> hundredths]

RECURSIVE DigitsValue(_)
DigitsValue(ds) ==
  IF ds = <<>> THEN 0
  ELSE 10 * DigitsValue(SubSeq(ds, 1, Len(ds) - 1)) + DigitVal(ds[Len(ds)])

\* the length of the longest prefix of digits
DigitsPrefix(cs) ==
  CHOOSE k \in 0..Len(cs) :
    /\ \A i \in 1..k : cs[i] \in Digits
    /\ k = Len(cs) \/ cs[k + 1] \notin Digits

\* parseFloat(s): the longest numeric prefix (sign, digits, fraction; of the
\* fraction the first two digits), NaN when there is none
parseFloat(cs) ==
  LET signed == Len(cs) > 0 /\ cs[1] \in {"+", "-"}
      body   == IF signed THEN Tail(cs) ELSE cs
      n      == DigitsPrefix(body)
      rest   == SubSeq(body, n + 1, Len(body))
      frac   == IF Len(rest) >= 2 /\ rest[1] = "." /\ rest[2] \in Digits
                  THEN IF Len(rest) >= 3 /\ rest[3] \in Digits
                         THEN 10 * DigitVal(rest[2]) + DigitVal(rest[3])
                         ELSE 10 * DigitVal(rest[2])
                  ELSE 0
      abs    == 100 * DigitsValue(SubSeq(body, 1, n)) + frac IN
  IF n = 0 /\ ~(Len(body) >= 2 /\ body[1] = "." /\ body[2] \in Digits) THEN NaN
  ELSE Num(IF signed /\ cs[1] = "-" THEN 0 - abs ELSE abs)

\* a - b and Math.max(a, b) of JavaScript numbers
Minus(a, b) == IF a.nan \/ b.nan THEN NaN ELSE Num(a.val - b.val)

MathMax(a, b) ==
  IF a.nan \/ b.nan THEN NaN ELSE IF a.val >= b.val THEN a ELSE b

RECURSIVE ToDigits(_)
ToDigits(n) ==
  LET d == <<"0", "1", "2", "3", "4", "5", "6", "7", "8", "9">>[(n % 10) + 1] IN
  IF n < 10 THEN <<d>> ELSE Append(ToDigits(n \div 10), d)

\* Number.prototype.toFixed(2), as characters
toFixed2(x) ==
  IF x.nan THEN <<"N", "a", "N">>
  ELSE LET abs == IF x.val < 0 THEN 0 - x.val ELSE x.val IN
       (IF x.val < 0 THEN <<"-">> ELSE <<>>)
         \o ToDigits(abs \div 100) \o <<".">>
         \o ToDigits((abs % 100) \div 10) \o ToDigits(abs % 10)

----------------------------------------------------------------------------
(* Manual form strategy.  The "local" generation is                        *)
(* manual-form-filling/Manual-Form-Filling.tsx, the "lifted" one is the    *)
(* ManualFormFilling with the per-form-type schemas.  Of each section the  *)
(* model keeps the field the scenarios name; `rest` says whether the other *)
(* nine personal fields hold values their schema accepts.                  *)

Tabs == <<"personal", "income", "deductions">>

ManDefaults == [personal   |-> [nif |-> "", rest |-> FALSE],
                income     |-> [salaryIncome |-> "0"],
                deductions |-> [donations |-> "0"]]

ManInit == [activeTab  |-> "personal",
            personal   |-> ManDefaults.personal,      \* personalForm values
            income     |-> ManDefaults.income,        \* incomeForm values
            deductions |-> ManDefaults.deductions,    \* deductionsForm values
            formData   |-> ManDefaults,
            auto       |-> <<>>,    \* autoCalculatedFields.resultado, if any
            submitted  |-> {},      \* sections whose submit passed validation
            trace      |-> [straight |-> TRUE, log |-> <<>>]]

\* nif of personalInfoSchema
NifValid(nif) ==
  IF variant = "local"
    THEN Len(Chars(nif)) >= 9 /\ Len(Chars(nif)) <= 9
    ELSE dniRegex(Chars(nif)) \/ nieRegex(Chars(nif))

\* a currency field of the income and deductions schemas
AmountValid(val) ==
  IF variant = "local"
    THEN ~IsNaNParseFloat(Chars(val))
    ELSE ~IsNaNParseFloat(Chars(IF val = "" THEN "0" ELSE val))

personalInfoSchema(p) == NifValid(p.nif) /\ p.rest

\* Object.keys(createIncomeSchema(formType).shape); salaryIncome stands for
\* the five fields of baseSchema
IncomeSchemaKeys(formType) ==
  IF variant = "lifted" /\ formType = "modelo303"
    THEN {"salaryIncome", "ivaRepercutido", "ivaSoportado"}
    ELSE {"salaryIncome"}

\* createIncomeSchema(formType).safeParse(data).success: every key of the
\* shape must hold a string that passes its refinement
createIncomeSchema(formType, data) ==
  \A k \in IncomeSchemaKeys(formType) :
    k \in DOMAIN data /\ AmountValid(data[k])

incomeSchema(i)       == createIncomeSchema(FormTypeProp, i)
deductionsSchema(d)   == AmountValid(d.donations)

\* fieldDefinitions[formType] || fieldDefinitions.modelo100: the rendered inputs
IncomeFields(formType) ==
  IF variant = "local" THEN {"salaryIncome"}
  ELSE CASE formType = "modelo303" -> {"ivaRepercutido", "ivaSoportado"}
         [] formType = "modelo130" -> {}
         [] formType = "modelo714" -> {}
         [] OTHER                  -> {"salaryIncome"}

DeductionFields(formType) ==
  IF variant = "local" THEN {"donations"}
  ELSE CASE formType = "modelo303" -> {}
         [] formType = "modelo130" -> {}
         [] formType = "modelo714" -> {}
         [] OTHER                  -> {"donations"}

\* onChange of a currency input whose text is now `text`
CurrencyOnChange(text) ==
  LET value == NumberInputValue(text) IN
  IF variant = "local" THEN value ELSE IF value = "" THEN "0" ELSE value

\* the auto-calculation without Math.max(0, ...)
AutoCalculate_NoClamp(m, formType) ==
  IF variant = "lifted" /\ formType = "modelo303"
    THEN [m EXCEPT !.auto =
            toFixed2(Minus(parseFloat(Chars(m.income.ivaRepercutido)),
                           parseFloat(Chars(m.income.ivaSoportado))))]
    ELSE m

\* the auto-calculation effect of the form with per-form-type schemas
AutoCalculate(m, formType) ==
  IF variant = "lifted" /\ formType = "modelo303"
    THEN LET values         == m.income
             ivaRepercutido == parseFloat(Chars(IF values.ivaRepercutido = ""
                                 THEN "0" ELSE values.ivaRepercutido))
             ivaSoportado   == parseFloat(Chars(IF values.ivaSoportado = ""
                                 THEN "0" ELSE values.ivaSoportado)) IN
         [m EXCEPT !.auto =
            toFixed2(MathMax(Num(0), Minus(ivaRepercutido, ivaSoportado)))]
    ELSE m

\* the form mounted with defaults for the rendered income inputs only
ManMount_RenderedDefaults(formType) ==
  LET income == [k \in IncomeFields(formType) |-> "0"] IN
  AutoCalculate([ManInit EXCEPT !.income = income, !.formData.income = income],
                formType)

\* the form as it is mounted for `formType`: the defaults of the income
\* form are "0" for every key of the schema
ManMount(formType) ==
  LET income == [k \in IncomeSchemaKeys(formType) |-> "0"] IN
  AutoCalculate([ManInit EXCEPT !.income = income, !.formData.income = income],
                formType)

\* The trace is kept while it is a straight run through the tabs (a valid
\* submit of each, in order) and dropped at the first other event
Logged(m, e) ==
  LET t == m.trace IN
  [m EXCEPT !.trace =
     IF t.straight /\ Len(t.log) < Len(Tabs) /\ e[1] = Tabs[Len(t.log) + 1]
       THEN [t EXCEPT !.log = Append(@, e)]
       ELSE [straight |-> FALSE, log |-> <<>>]]

handleTabChange(m, value) ==
  Logged([m EXCEPT !.activeTab = value], <<"tab", value>>)

handlePersonalSubmit(m, data) ==
  Logged([m EXCEPT !.formData = [m.formData EXCEPT !.personal = data],
                   !.activeTab = "income",
                   !.submitted = @ \cup {"personal"}],
         <<"personal", data.nif>>)

handleIncomeSubmit(m, data) ==
  Logged([m EXCEPT !.formData = [m.formData EXCEPT !.income = data],
                   !.activeTab = "deductions",
                   !.submitted = @ \cup {"income"}],
         <<"income", data.salaryIncome>>)

\* the state part of handleDeductionsSubmit; it then calls onComplete()
handleDeductionsSubmit(m, data) ==
  Logged([m EXCEPT !.formData = [m.formData EXCEPT !.deductions = data],
                   !.submitted = @ \cup {"deductions"}],
         <<"deductions", data.donations>>)

----------------------------------------------------------------------------
(* AI chat strategy (AiChatAssistant.tsx).  A timer callback keeps the     *)
(* input, the attachments and messages.length of the render that created   *)
(* it.  The chat's progress is kept in half percents: its heuristic adds   *)
(* 1.5 per message.                                                        *)

\* <AiChatAssistant taxFormType={...} />: no onComplete prop is passed
chatOnComplete == FALSE

donePhrases == {"terminar", "finalizar", "completar", "acabar", "listo",
                "acabé", "terminé"}

\* the condition of the reply timer's if
CompletionIntent(input) ==
  \E p \in donePhrases : includes(toLowerCase(Chars(input)), Chars(p))

\* suggestedQuestionsByForm[taxFormType]: one question stands for the five
suggestedQuestions == {"¿Qué es el Modelo 100?"}

HalfPercent(p) == 2 * p

Min(a, b) == IF a < b THEN a ELSE b

ChatInit == [messages        |-> <<[id |-> 1, role |-> "assistant",
                                    content |-> "saludo"]>>,
             input           |-> "",
             attachments     |-> 0,
             isLoading       |-> FALSE,
             showSuggestions |-> TRUE,
             isCompleted     |-> FALSE,
             progress        |-> 0,
             timers          |-> <<>>]

\* the effect on [messages]
ConversationProgress(conversationLength) ==
  IF conversationLength <= 1 THEN 0
  ELSE IF conversationLength < 10
    THEN HalfPercent(Min(80, conversationLength * 10))
    ELSE Min(HalfPercent(95), HalfPercent(80) + (conversationLength - 10) * 3)

Closure(c) == [input |-> c.input, attachments |-> c.attachments,
               len |-> Len(c.messages)]

\* handleSendMessage without its first line
handleSendMessage_NoGuard(c, cl) ==
  [c EXCEPT !.messages = Append(@, [id |-> cl.len + 1, role |-> "user",
                                    content |-> cl.input]),
            !.input = "",
            !.attachments = 0,
            !.showSuggestions = FALSE,
            !.isLoading = TRUE,
            !.timers = Append(@, [kind |-> "reply", input |-> cl.input,
                                  attachments |-> cl.attachments,
                                  len |-> cl.len])]

\* handleSendMessage of the render `cl`, run when the chat's state is `c`
handleSendMessage(c, cl) ==
  IF IsBlank(Chars(cl.input)) /\ cl.attachments = 0 THEN c
  ELSE [c EXCEPT !.messages = Append(@, [id |-> cl.len + 1, role |-> "user",
                                         content |-> cl.input]),
                 !.input = "",
                 !.attachments = 0,
                 !.showSuggestions = FALSE,
                 !.isLoading = TRUE,
                 !.timers = Append(@, [kind |-> "reply", input |-> cl.input,
                                       attachments |-> cl.attachments,
                                       len |-> cl.len])]

\* the reply appended to the messages of the timer's own render
replyTimer_StaleList(c, t) ==
  [c EXCEPT !.messages = Append(SubSeq(@, 1, Min(t.len + 1, Len(@))),
                                [id |-> t.len + 2, role |-> "assistant",
                                 content |-> "respuesta"]),
            !.isLoading = FALSE,
            !.isCompleted = IF CompletionIntent(t.input) THEN TRUE ELSE @]

\* the callback of handleSendMessage's setTimeout(..., 1500)
replyTimer(c, t) ==
  [c EXCEPT !.messages = Append(@, [id |-> t.len + 2, role |-> "assistant",
                                    content |-> "respuesta"]),
            !.isLoading = FALSE,
            !.isCompleted = IF CompletionIntent(t.input) THEN TRUE ELSE @]

handleSuggestedQuestion(c, question) ==
  [c EXCEPT !.input = question,
            !.timers = Append(@, [kind |-> "send", input |-> c.input,
                                  attachments |-> c.attachments,
                                  len |-> Len(c.messages)])]

\* the chat's own handleComplete: setProgress(100), then onComplete if given
chatHandleComplete(c) == [c EXCEPT !.progress = HalfPercent(100)]

chatCompleteCallback(st) == IF chatOnComplete THEN handleComplete(st) ELSE st

\* the effects that follow a render of the chat
ChatEffects(c) ==
  IF c.messages # chat.messages
    THEN [c EXCEPT !.progress = ConversationProgress(Len(c.messages))]
    ELSE c

TimerDelay(kind) == IF kind = "send" THEN 0 ELSE 1500

\* timers run in the order of their due times
TimerDue(ts, i) ==
  \A j \in 1..(i - 1) : TimerDelay(ts[j].kind) > TimerDelay(ts[i].kind)

RemoveAt(ts, i) == SubSeq(ts, 1, i - 1) \o SubSeq(ts, i + 1, Len(ts))

\* messages the chat holds once every pending timer has run
ChatBudget(c) ==
  Len(c.messages) + Len(c.timers)
    + Cardinality({i \in 1..Len(c.timers) : c.timers[i].kind = "send"})

----------------------------------------------------------------------------
(* Upload strategy (FormUpload.tsx) *)

UplInit == [file            |-> Null,
            uploadStatus    |-> "idle",
            uploadProgress  |-> 0,
            fileRejections  |-> <<>>,      \* of useDropzone
            extractedData   |-> FALSE,     \* extractedData !== null
            retryCount      |-> 0,
            processingError |-> FALSE,     \* processingError !== null
            successRate     |-> 0,         \* the rate of the last draw, in percent
            timers          |-> <<>>]

\* URL.createObjectURL(selectedFile): onDrop stores it as file.preview
createObjectURL(selectedFile) == <<"blob", selectedFile>>

\* file?.preview; <<>> stands for undefined
Preview(u) == IF u.file = Null THEN <<>> ELSE createObjectURL(u.file)

\* `if (file?.preview) URL.revokeObjectURL(file.preview)`, as onDrop and
\* handleRemoveFile run it on the file of their render
RevokePreview(u) == IF Preview(u) # <<>> THEN <<Preview(u)>> ELSE <<>>

\* The cleanup of useEffect(..., [file]): React runs it, on the file of the
\* render that registered it, when `file` has changed and at the unmount
FileEffectCleanup(u, next, mountedNext) ==
  IF ~mountedNext \/ next.file # u.file THEN RevokePreview(u) ELSE <<>>

\* File.type and the extension of the files the user has
FileType(file) ==
  CASE file = "renta.pdf" -> "application/pdf"
    [] file = "foto.png"  -> "image/png"
    [] file = "notas.txt" -> "text/plain"

FileExtension(file) ==
  CASE file = "renta.pdf" -> ".pdf"
    [] file = "foto.png"  -> ".png"
    [] file = "notas.txt" -> ".txt"

\* the `accept` option of useDropzone
accept == [type |-> {"application/pdf", "image/jpeg", "image/png"},
           extension |-> {".pdf", ".jpg", ".jpeg", ".png"}]

\* a dropzone that takes every file
fileAccepted_Any(file) == TRUE

\* useDropzone sorts a dropped file into acceptedFiles or fileRejections
fileAccepted(file) ==
  FileType(file) \in accept.type \/ FileExtension(file) \in accept.extension

\* onDrop(acceptedFiles) with the dropped file sorted by useDropzone
onDrop(u, selectedFile) ==
  IF fileAccepted(selectedFile)
    THEN [u EXCEPT !.file = selectedFile, !.uploadStatus = "idle",
                   !.uploadProgress = 0,
                   !.extractedData = FALSE, !.processingError = FALSE,
                   !.fileRejections = <<>>]
    ELSE [u EXCEPT !.fileRejections = <<selectedFile>>]

\* handleUpload of the render `cl`, run when the upload's state is `u`
handleUpload(u, cl) ==
  IF cl.file = Null THEN u
  ELSE [u EXCEPT !.uploadStatus = "uploading",
                 !.uploadProgress = 0,
                 !.processingError = FALSE,
                 !.timers = Append(@, [kind |-> "uploaded",
                                       retryCount |-> cl.retryCount])]

handleRetry(u) == handleUpload([u EXCEPT !.retryCount = @ + 1], u)

\* one run of the setInterval(..., 80) callback
uploadTick(prev) == IF prev >= 100 THEN 100 ELSE prev + 5

\* a 2000 ms callback that does not start the processing timer
uploadedTimer_NoProcessing(u, t) ==
  [u EXCEPT !.uploadStatus = "processing", !.uploadProgress = 100]

\* the callback of setTimeout(..., 2000)
uploadedTimer(u, t) ==
  [u EXCEPT !.uploadStatus = "processing",
            !.uploadProgress = 100,
            !.timers = Append(@, [kind |-> "processed",
                                  retryCount |-> t.retryCount])]

\* a processing timer whose failure is thrown instead of stored
processedTimer_Throws(u, t, drawn) ==
  IF drawn
    THEN [u EXCEPT !.extractedData = TRUE, !.uploadStatus = "success",
                   !.successRate = IF t.retryCount = 0 THEN 90 ELSE 70]
    ELSE u

\* the callback of the nested setTimeout(..., 3000); `drawn` is
\* Math.random() < successRate
processedTimer(u, t, drawn) ==
  LET rate == IF t.retryCount = 0 THEN 90 ELSE 70 IN
  IF drawn
    THEN [u EXCEPT !.extractedData = TRUE, !.uploadStatus = "success",
                   !.successRate = rate]
    ELSE [u EXCEPT !.uploadStatus = "error", !.processingError = TRUE,
                   !.successRate = rate]

\* the state part of handleRemoveFile; it then calls onCancel()
handleRemoveFile(u) ==
  [u EXCEPT !.file = Null, !.uploadStatus = "idle",
            !.uploadProgress = 0,
            !.extractedData = FALSE, !.processingError = FALSE]

----------------------------------------------------------------------------
(* mergeDeep, the helper FormUpload.tsx and IdLookup.tsx both define.  A   *)
(* value is a leaf (a number) or an object (its fields, by key).           *)

NoFields == [k \in {} |-> 0]

Leaf(n) == [leaf |-> TRUE, v |-> n, f |-> NoFields]

Obj(fields) == [leaf |-> FALSE, v |-> 0, f |-> fields]

\* item !== null && typeof item === "object" && !Array.isArray(item)
isObject(item) == ~item.leaf

\* { ...target }: the own properties of an object, none of a number
Spread(target) == IF isObject(target) THEN target.f ELSE NoFields

RECURSIVE mergeDeep(_, _)
mergeDeep(target, source) ==
  LET output == Spread(target) IN
  IF isObject(target) /\ isObject(source)
    THEN Obj([key \in DOMAIN output \cup DOMAIN source.f |->
                IF key \notin DOMAIN source.f THEN output[key]
                ELSE IF isObject(source.f[key])
                  THEN IF key \notin DOMAIN target.f
                         THEN source.f[key]
                         ELSE mergeDeep(target.f[key], source.f[key])
                  ELSE source.f[key]])
    ELSE Obj(output)

\* the values mergeDeep is called on: objects of depth one and two
MergeKeys   == {"a", "b"}
MergeLeaves == {Leaf(1), Leaf(2)}

FieldsOver(values) == UNION {[D -> values] : D \in SUBSET MergeKeys}

FlatObjects   == {Obj(fields) : fields \in FieldsOver(MergeLeaves)}
NestedObjects == {Obj(fields) : fields \in FieldsOver(MergeLeaves \cup FlatObjects)}

MergeIdle == [target |-> Obj(NoFields), source |-> Obj(NoFields),
              output |-> Obj(NoFields), again |-> Obj(NoFields),
              done |-> FALSE]

\* output = mergeDeep(target, source), then mergeDeep(output, source)
MergeCall ==
  /\ ~mrg.done
  /\ mrg' = LET output == mergeDeep(mrg.target, mrg.source) IN
            [mrg EXCEPT !.output = output,
                        !.again = mergeDeep(output, mrg.source),
                        !.done = TRUE]
  /\ UNCHANGED <<variant, wizardVars, selectorVars, man, chat, upl, lk, ev,
                 calls, revoked, prevStep, completed, orphans, sheet>>

\* Object.keys(createIncomeSchema(formType).shape), every key spelled out
IncomeShape(formType) ==
  LET baseSchema == {"salaryIncome", "selfEmploymentIncome",
                     "capitalGainsIncome", "rentalIncome", "otherIncome"} IN
  CASE formType = "modelo303" -> baseSchema \cup {"ivaRepercutido", "ivaSoportado"}
    [] formType = "modelo714" ->
         baseSchema \cup {"realEstate", "financialAssets", "liabilities"}
    [] OTHER                  -> baseSchema

\* Object.keys(createDeductionsSchema(formType).shape)
DeductionsShape(formType) ==
  LET baseSchema == {"socialSecurity", "pensionContributions",
                     "mortgageInterest", "donations", "otherDeductions"} IN
  CASE formType = "modelo100" ->
         baseSchema \cup {"familyDeductions", "disabilityDeductions"}
    [] formType = "modelo303" -> baseSchema \cup {"previousPeriodCompensation"}
    [] OTHER                  -> baseSchema

\* fieldDefinitions[formType] || fieldDefinitions.modelo100: the names of the
\* inputs each tab renders
fieldDefinitions(formType) ==
  LET modelo100 ==
        [income     |-> {"salaryIncome", "selfEmploymentIncome",
                         "capitalGainsIncome", "rentalIncome", "otherIncome"},
         deductions |-> {"socialSecurity", "pensionContributions",
                         "mortgageInterest", "donations", "otherDeductions",
                         "familyDeductions", "disabilityDeductions"}] IN
  CASE formType = "modelo303" ->
         [income     |-> {"selfEmploymentIncome", "ivaRepercutido", "ivaSoportado"},
          deductions |-> {"socialSecurity", "previousPeriodCompensation",
                          "otherDeductions"}]
    [] formType = "modelo130" ->
         [income     |-> {"selfEmploymentIncome", "otherIncome"},
          deductions |-> {"socialSecurity", "otherDeductions"}]
    [] formType = "modelo714" ->
         [income     |-> {"realEstate", "financialAssets",
                          "capitalGainsIncome", "otherIncome"},
          deductions |-> {"liabilities", "otherDeductions"}]
    [] OTHER -> modelo100

\* the schema behind the resolver of the form of `tab`
SheetShape(formType, tab) ==
  IF tab = "income" THEN IncomeShape(formType) ELSE DeductionsShape(formType)

NoValues == [k \in {} |-> "0"]

SheetIdle == [formType |-> "", tab |-> "income", values |-> NoValues,
              stored |-> NoValues, ev |-> "idle"]

\* useForm({resolver, defaultValues}): "0" for every key of the shape
SheetMount(formType, tab) ==
  LET defaults == [k \in SheetShape(formType, tab) |-> "0"] IN
  [formType |-> formType, tab |-> tab, values |-> defaults,
   stored |-> defaults, ev |-> "mount"]

SheetMounted == sheet.formType # ""

SheetUnchanged ==
  UNCHANGED <<variant, wizardVars, selectorVars, man, chat, upl, lk, ev,
              calls, revoked, prevStep, completed, orphans, mrg>>

\* onChange of the CurrencyInput of a rendered field: field.onChange
SheetType(inputs) ==
  /\ SheetMounted
  /\ \E name \in fieldDefinitions(sheet.formType)[sheet.tab], text \in inputs :
       sheet' = [sheet EXCEPT
                   !.values = [k \in DOMAIN @ \cup {name} |->
                                 IF k = name THEN CurrencyOnChange(text) ELSE @[k]],
                   !.ev = "type"]
  /\ SheetUnchanged

\* handleSubmit of the tab's form: the resolver parses the values with the
\* schema, which drops the keys it does not know, and the submit handler
\* stores what was parsed as the section of formData
SheetSubmit ==
  /\ SheetMounted
  /\ LET shape == SheetShape(sheet.formType, sheet.tab)
         data  == [k \in shape |-> sheet.values[k]] IN
     sheet' = IF \A k \in shape : k \in DOMAIN sheet.values
                                   /\ AmountValid(sheet.values[k])
                THEN [sheet EXCEPT !.stored = data, !.ev = "submit"]
                ELSE [sheet EXCEPT !.ev = "rejected"]
  /\ SheetUnchanged

----------------------------------------------------------------------------
(* Lookup strategy (id-lookup/IdLookup.tsx).  taxData says whether the    *)
(* record is there, personalInfo is its personalInfo part; `edited` is the *)
(* set of uncontrolled inputs of the edit grid the user has typed into.    *)

PersonalKeys == {"fullName", "documentNumber", "dateOfBirth", "address",
                 "postalCode", "city", "province", "phone", "email"}

NoPersonalInfo ==
  [fullName |-> "", documentNumber |-> <<>>, dateOfBirth |-> "",
   address |-> "", postalCode |-> "", city |-> "", province |-> "",
   phone |-> "", email |-> ""]

FormDefaults == [documentNumber |-> "", dateOfBirth |-> "", consentCheck |-> FALSE]

LkInit == [lookupState     |-> "initial",
           taxData         |-> FALSE,     \* taxData !== null
           personalInfo    |-> NoPersonalInfo,
           editMode        |-> FALSE,
           edited          |-> {},
           loadingProgress |-> 0,
           errorDetails    |-> FALSE,     \* errorDetails !== null
           form            |-> FormDefaults,
           pending         |-> <<>>]      \* the calls awaiting their 3000 ms

\* verificationSchema without the consent refinement
verificationSchema_NoConsent(f) ==
  /\ Len(Chars(f.documentNumber)) >= 1
  /\ dniRegex(Chars(f.documentNumber)) \/ nieRegex(Chars(f.documentNumber))
  /\ Len(Chars(f.dateOfBirth)) >= 1
  /\ DateParses(Chars(f.dateOfBirth))

verificationSchema(f) ==
  /\ Len(Chars(f.documentNumber)) >= 1
  /\ dniRegex(Chars(f.documentNumber)) \/ nieRegex(Chars(f.documentNumber))
  /\ Len(Chars(f.dateOfBirth)) >= 1
  /\ DateParses(Chars(f.dateOfBirth))
  /\ f.consentCheck = TRUE

\* setInterval(..., 500) and the 3000 ms of the simulated call
ProgressIntervalMs == 500
ApiDelayMs         == 3000

\* simulateApiCall up to its await
simulateApiCall(l, data) ==
  [l EXCEPT !.lookupState = "loading", !.loadingProgress = 0,
            !.pending = Append(@, data)]

\* one run of the setInterval(..., 500) callback
progressTick(prev) == IF prev >= 90 THEN 90 ELSE prev + 10

\* baseData.personalInfo of a successful lookup
basePersonalInfo(data) ==
  [fullName       |-> "Juan García López",
   documentNumber |-> toUpperCase(Chars(data.documentNumber)),
   dateOfBirth    |-> data.dateOfBirth,
   address        |-> "Calle Mayor 1, 3º Izq",
   postalCode     |-> "28001",
   city           |-> "Madrid",
   province       |-> "Madrid",
   phone          |-> "600123456",
   email          |-> "juan.garcia@example.com"]

\* simulateApiCall after its await; `isSuccessful` is Math.random() < 0.8
apiResolved(l, data, isSuccessful) ==
  IF isSuccessful
    THEN [l EXCEPT !.loadingProgress = 100, !.taxData = TRUE,
                   !.personalInfo = basePersonalInfo(data),
                   !.lookupState = "success"]
    ELSE [l EXCEPT !.loadingProgress = 100, !.lookupState = "error",
                   !.errorDetails = TRUE]

\* the disabled attribute of the edit grid's Input for `key`, without fullName
disabled_NoFullName(key) == key = "documentNumber" \/ key = "dateOfBirth"

\* the disabled attribute of the edit grid's Input for `key`
disabled(key) ==
  key = "documentNumber" \/ key = "dateOfBirth" \/ key = "fullName"

handleTaxDataUpdate(l) == [l EXCEPT !.editMode = FALSE, !.edited = {}]

\* handleTryAgain that leaves the error details
handleTryAgain_KeepsError(l) ==
  [l EXCEPT !.lookupState = "initial", !.taxData = FALSE,
            !.personalInfo = NoPersonalInfo,
            !.loadingProgress = 0, !.form = FormDefaults]

handleTryAgain(l) ==
  [l EXCEPT !.lookupState = "initial", !.taxData = FALSE,
            !.personalInfo = NoPersonalInfo,
            !.errorDetails = FALSE, !.loadingProgress = 0,
            !.form = FormDefaults]

\* the state part of handleCancelWithReset; it then calls onCancel()
handleCancelWithReset(l) ==
  [l EXCEPT !.lookupState = "initial", !.taxData = FALSE,
            !.personalInfo = NoPersonalInfo,
            !.errorDetails = FALSE, !.loadingProgress = 0]

----------------------------------------------------------------------------
(* One step: the handler `name` has queued the writes `st` on the wizard   *)
(* and the selector, and the strategies end in `sub`.  A strategy the      *)
(* selector no longer renders is unmounted and loses its state; the timers *)
(* it left behind find nothing to write to.                                *)

Sub == [man |-> man, chat |-> chat, upl |-> upl, lk |-> lk, revoked |-> <<>>,
        orphans |-> orphans.timers, toast |-> Null]

NoOrphans == [watched |-> FALSE, timers |-> <<>>, toast |-> Null]

\* an unmount that cleared the timeouts of the view
Orphaned_Cleared(section, st, sub) == <<>>

\* The setTimeout chain of handleUpload and the await of simulateApiCall are
\* never cleared: the timers of a view that is unmounted stay scheduled
Orphaned(section, st, sub) ==
  (IF UploadMounted /\ ~UploadMountedIn(section, st)
     THEN [i \in 1..Len(sub.upl.timers) |-> sub.upl.timers[i].kind]
     ELSE <<>>)
  \o (IF LookupMounted /\ ~LookupMountedIn(section, st)
        THEN [i \in 1..Len(sub.lk.pending) |-> "resolved"]
        ELSE <<>>)

Commit(name, section, st, sub) ==
  /\ activeSection' = section
  /\ activeStep' = st.activeStep
  /\ selectedForm' = st.selectedForm
  /\ selectedMethod' = st.selectedMethod
  /\ progress' = ProgressEffect(st)
  /\ localSelectedForm' = st.localSelectedForm
  /\ localSelectedMethod' = st.localSelectedMethod
  /\ showAiChat' = st.showAiChat
  /\ showManualForm' = st.showManualForm
  /\ showUploadForm' = st.showUploadForm
  /\ showIdLookup' = st.showIdLookup
  /\ man' = IF ManualMountedIn(section, st)
               THEN LET formType == IF variant = "local"
                                      THEN st.localSelectedForm
                                      ELSE st.selectedForm
                        prop     == IF Truthy(formType) THEN formType ELSE "" IN
                    IF ManualMounted THEN AutoCalculate(sub.man, prop)
                                     ELSE ManMount(prop)
               ELSE ManInit
  /\ chat' = IF ChatMountedIn(section, st) THEN ChatEffects(sub.chat) ELSE ChatInit
  /\ upl' = IF UploadMountedIn(section, st) THEN sub.upl ELSE UplInit
  /\ lk' = IF LookupMountedIn(section, st) THEN sub.lk ELSE LkInit
  /\ ev' = name
  /\ calls' = st.calls
  /\ revoked' = sub.revoked \o
                  (IF UploadMounted
                     THEN FileEffectCleanup(upl, sub.upl,
                                            UploadMountedIn(section, st))
                     ELSE <<>>)
  /\ prevStep' = activeStep
  /\ completed' = /\ \/ ManualMountedIn(section, st) \/ ChatMountedIn(section, st)
                     \/ UploadMountedIn(section, st) \/ LookupMountedIn(section, st)
                  /\ \/ completed
                     \/ \E k \in 1..Len(st.calls) : st.calls[k] = "onComplete"
  /\ orphans' = IF orphans.watched
                  THEN [orphans EXCEPT
                          !.timers = sub.orphans \o Orphaned(section, st, sub),
                          !.toast = sub.toast]
                  ELSE orphans
  /\ UNCHANGED <<variant, mrg, sheet>>

\* FormFilling unmounted: its own state is gone
Unmounted(st) ==
  HideAll([st EXCEPT !.localSelectedForm = Null, !.localSelectedMethod = Null])

----------------------------------------------------------------------------
(* Wizard actions *)

\* a sidebar item, or "My Profile" of the avatar menu
SetActiveSection ==
  \E id \in sidebarItems :
    Commit("setActiveSection", id,
           IF id = "form" THEN Pending ELSE Unmounted(Pending), Sub)

\* the wizard's Next button (desktop and mobile)
WizardNext ==
  /\ activeSection = "form"
  /\ StepIndex(activeStep) < Len(formSteps) - 1
  /\ ~ \/ (activeStep = "select-type" /\ ~Truthy(selectedForm))
       \/ (activeStep = "select-method" /\ ~Truthy(selectedMethod))
  /\ Commit("Next", activeSection, handleNextStep(Pending), Sub)

\* the wizard's Previous button
WizardPrevious ==
  /\ activeSection = "form"
  /\ StepIndex(activeStep) > 0
  /\ Commit("Previous", activeSection, handlePreviousStep(Pending), Sub)

----------------------------------------------------------------------------
(* Selector actions *)

FormTypeSelect(choices) ==
  /\ GridVisible /\ Step = "form-type"
  /\ \E formId \in Catalog \cap choices :
       Commit("handleFormTypeSelect", activeSection,
              handleFormTypeSelect(Pending, formId), Sub)

MethodSelect ==
  /\ GridVisible /\ Step = "form-method"
  /\ \E methodId \in formMethods :
       Commit("handleMethodSelect", activeSection,
              handleMethodSelect(Pending, methodId), Sub)

\* handleContinue is the Continue button's handler; the button is disabled
\* when the handler's own guard fails
Continue ==
  /\ GridVisible
  /\ Commit("handleContinue", activeSection, handleContinue(Pending), Sub)

BackToFormTypes ==
  /\ GridVisible /\ Step = "form-method"
  /\ Commit("backToFormTypes", activeSection, backToFormTypes(Pending), Sub)

\* the selector's own Previous button, shown in phase 1
SelectorPrevious ==
  /\ GridVisible /\ Step = "form-type"
  /\ Commit("onPrevious", activeSection, onPrevious(Pending), Sub)

----------------------------------------------------------------------------
(* Manual form actions *)

ManTypeNif(inputs) ==
  /\ ManualMounted /\ man.activeTab = "personal"
  /\ \E v \in inputs :
       Commit("type", activeSection, Pending,
              [Sub EXCEPT !.man.personal.nif = v])

\* the user fills in, or spoils, the other personal fields
ManTypeRest(inputs) ==
  /\ ManualMounted /\ man.activeTab = "personal"
  /\ \E ok \in inputs :
       Commit("type", activeSection, Pending,
              [Sub EXCEPT !.man.personal.rest = ok])

ManTypeSalary(inputs) ==
  /\ ManualMounted /\ man.activeTab = "income"
  /\ "salaryIncome" \in IncomeFields(FormTypeProp)
  /\ \E v \in inputs :
       Commit("type", activeSection, Pending,
              [Sub EXCEPT !.man.income.salaryIncome = CurrencyOnChange(v)])

ManTypeIva(inputs) ==
  /\ ManualMounted /\ man.activeTab = "income"
  /\ \E name \in {"ivaRepercutido", "ivaSoportado"} \cap IncomeFields(FormTypeProp) :
       \E v \in inputs :
         Commit("type", activeSection, Pending,
                [Sub EXCEPT !.man.income[name] = CurrencyOnChange(v)])

ManTypeDonations(inputs) ==
  /\ ManualMounted /\ man.activeTab = "deductions"
  /\ "donations" \in DeductionFields(FormTypeProp)
  /\ \E v \in inputs :
       Commit("type", activeSection, Pending,
              [Sub EXCEPT !.man.deductions.donations = CurrencyOnChange(v)])

\* a click on a TabsTrigger
ManTabClick ==
  /\ ManualMounted
  /\ \E value \in {Tabs[i] : i \in 1..Len(Tabs)} \ {man.activeTab} :
       Commit("handleTabChange", activeSection, Pending,
              [Sub EXCEPT !.man = handleTabChange(man, value)])

\* the "back" button of the income and deductions tabs
ManBack ==
  /\ ManualMounted /\ man.activeTab # "personal"
  /\ Commit("setActiveTab", activeSection, Pending,
            [Sub EXCEPT !.man =
               Logged([man EXCEPT !.activeTab =
                         IF man.activeTab = "income" THEN "personal"
                                                     ELSE "income"],
                      <<"back", "">>)])

\* personalForm.handleSubmit(handlePersonalSubmit)
ManSubmitPersonal ==
  /\ ManualMounted /\ man.activeTab = "personal"
  /\ IF personalInfoSchema(man.personal)
       THEN Commit("handlePersonalSubmit", activeSection, Pending,
                   [Sub EXCEPT !.man = handlePersonalSubmit(man, man.personal)])
       ELSE Commit("rejected", activeSection, Pending,
                   [Sub EXCEPT !.man = Logged(man, <<"rejected", "personal">>)])

\* the income submit without its resolver
ManSubmitIncome_Unvalidated ==
  /\ ManualMounted /\ man.activeTab = "income"
  /\ Commit("handleIncomeSubmit", activeSection, Pending,
            [Sub EXCEPT !.man = handleIncomeSubmit(man, man.income)])

\* the income submit reporting completion as the deductions submit does
ManSubmitIncome_Completes ==
  /\ ManualMounted /\ man.activeTab = "income"
  /\ IF incomeSchema(man.income)
       THEN Commit("handleIncomeSubmit", activeSection, handleComplete(Pending),
                   [Sub EXCEPT !.man = handleIncomeSubmit(man, man.income)])
       ELSE Commit("rejected", activeSection, Pending,
                   [Sub EXCEPT !.man = Logged(man, <<"rejected", "income">>)])

ManSubmitIncome ==
  /\ ManualMounted /\ man.activeTab = "income"
  /\ IF incomeSchema(man.income)
       THEN Commit("handleIncomeSubmit", activeSection, Pending,
                   [Sub EXCEPT !.man = handleIncomeSubmit(man, man.income)])
       ELSE Commit("rejected", activeSection, Pending,
                   [Sub EXCEPT !.man = Logged(man, <<"rejected", "income">>)])

ManSubmitDeductions ==
  /\ ManualMounted /\ man.activeTab = "deductions"
  /\ IF deductionsSchema(man.deductions)
       THEN Commit("handleDeductionsSubmit", activeSection,
                   handleComplete(Pending),
                   [Sub EXCEPT !.man =
                      handleDeductionsSubmit(man, man.deductions)])
       ELSE Commit("rejected", activeSection, Pending,
                   [Sub EXCEPT !.man = Logged(man, <<"rejected", "deductions">>)])

ManCancel ==
  /\ ManualMounted
  /\ Commit("manual.onCancel", activeSection, handleCancel(Pending), Sub)

----------------------------------------------------------------------------
(* Chat actions *)

ChatType(inputs) ==
  /\ ChatMounted /\ ~chat.isLoading
  /\ \E v \in inputs :
       Commit("type", activeSection, Pending, [Sub EXCEPT !.chat.input = v])

\* handleFileUpload with one file chosen
ChatAttach(maxAttachments) ==
  /\ ChatMounted /\ ~chat.isLoading
  /\ chat.attachments < maxAttachments
  /\ Commit("handleFileUpload", activeSection, Pending,
            [Sub EXCEPT !.chat.attachments = @ + 1])

\* the send button
ChatSendClick(maxMessages) ==
  /\ ChatMounted
  /\ ~ \/ (IsBlank(Chars(chat.input)) /\ chat.attachments = 0)
       \/ chat.isLoading
  /\ ChatBudget(chat) + 2 <= maxMessages
  /\ Commit("handleSendMessage", activeSection, Pending,
            [Sub EXCEPT !.chat = handleSendMessage(chat, Closure(chat))])

\* Enter without Shift in the textarea
ChatEnter(maxMessages) ==
  /\ ChatMounted /\ ~chat.isLoading
  /\ ChatBudget(chat) + 2 <= maxMessages
  /\ Commit("handleKeyDown", activeSection, Pending,
            [Sub EXCEPT !.chat = handleSendMessage(chat, Closure(chat))])

ChatSuggested(maxMessages) ==
  /\ ChatMounted /\ chat.showSuggestions /\ ~chat.isLoading
  /\ ChatBudget(chat) + 2 <= maxMessages
  /\ \E question \in suggestedQuestions :
       Commit("handleSuggestedQuestion", activeSection, Pending,
              [Sub EXCEPT !.chat = handleSuggestedQuestion(chat, question)])

\* a pending timer of the chat runs
ChatTimer ==
  /\ ChatMounted
  /\ \E i \in 1..Len(chat.timers) :
       /\ TimerDue(chat.timers, i)
       /\ LET t == chat.timers[i]
              c == [chat EXCEPT !.timers = RemoveAt(@, i)] IN
          IF t.kind = "send"
            THEN Commit("deferredSend", activeSection, Pending,
                        [Sub EXCEPT !.chat = handleSendMessage(c, t)])
            ELSE Commit("replyTimer", activeSection, Pending,
                        [Sub EXCEPT !.chat = replyTimer(c, t)])

\* the "Completar Asistente" button
ChatComplete ==
  /\ ChatMounted /\ chat.isCompleted /\ ~chat.isLoading
  /\ Commit("chat.handleComplete", activeSection,
            chatCompleteCallback(Pending),
            [Sub EXCEPT !.chat = chatHandleComplete(chat)])

----------------------------------------------------------------------------
(* Upload actions *)

UplDrop(files) ==
  /\ UploadMounted /\ upl.file = Null
  /\ \E f \in files :
       Commit(IF fileAccepted(f) THEN "onDrop" ELSE "onDropRejected",
              activeSection, Pending,
              [Sub EXCEPT !.upl = onDrop(upl, f),
                          !.revoked = IF fileAccepted(f) THEN RevokePreview(upl)
                                                         ELSE <<>>])

\* the upload button shown whatever the status
UplUpload_AnyStatus(maxOrphans) ==
  /\ UploadMounted /\ upl.file # Null
  /\ Len(orphans.timers) < maxOrphans
  /\ Commit("handleUpload", activeSection, Pending,
            [Sub EXCEPT !.upl = handleUpload(upl, upl)])

UplUpload(maxOrphans) ==
  /\ UploadMounted /\ upl.file # Null /\ upl.uploadStatus = "idle"
  /\ Len(orphans.timers) < maxOrphans
  /\ Commit("handleUpload", activeSection, Pending,
            [Sub EXCEPT !.upl = handleUpload(upl, upl)])

UplRetry(maxRetries, maxOrphans) ==
  /\ UploadMounted /\ upl.file # Null /\ upl.uploadStatus = "error"
  /\ upl.retryCount < maxRetries
  /\ Len(orphans.timers) < maxOrphans
  /\ Commit("handleRetry", activeSection, Pending,
            [Sub EXCEPT !.upl = handleRetry(upl)])

\* a processing timer that reports completion by itself on success
UplTimer_AutoCompletes ==
  /\ UploadMounted /\ upl.timers # <<>>
  /\ LET t == Head(upl.timers)
         u == [upl EXCEPT !.timers = Tail(@)] IN
     IF t.kind = "uploaded"
       THEN Commit("uploadedTimer", activeSection, Pending,
                   [Sub EXCEPT !.upl = uploadedTimer(u, t)])
       ELSE \E drawn \in BOOLEAN :
              Commit("processedTimer", activeSection,
                     IF drawn THEN handleComplete(Pending) ELSE Pending,
                     [Sub EXCEPT !.upl = processedTimer(u, t, drawn)])

\* the progress interval fires; the 2000 ms callback clears it
UplTick ==
  /\ UploadMounted
  /\ \E i \in 1..Len(upl.timers) : upl.timers[i].kind = "uploaded"
  /\ upl.uploadProgress < uploadTick(upl.uploadProgress)
  /\ Commit("uploadTick", activeSection, Pending,
            [Sub EXCEPT !.upl.uploadProgress = uploadTick(@)])

\* a pending timer of the upload runs
UplTimer ==
  /\ UploadMounted /\ upl.timers # <<>>
  /\ LET t == Head(upl.timers)
         u == [upl EXCEPT !.timers = Tail(@)] IN
     IF t.kind = "uploaded"
       THEN Commit("uploadedTimer", activeSection, Pending,
                   [Sub EXCEPT !.upl = uploadedTimer(u, t)])
       ELSE \E drawn \in BOOLEAN :
              Commit("processedTimer", activeSection, Pending,
                     [Sub EXCEPT !.upl = processedTimer(u, t, drawn)])

\* the X next to the file, and "Eliminar" of the error view
UplRemove ==
  /\ UploadMounted /\ upl.file # Null
  /\ Commit("handleRemoveFile", activeSection, handleCancel(Pending),
            [Sub EXCEPT !.upl = handleRemoveFile(upl),
                        !.revoked = RevokePreview(upl)])

UplCancel ==
  /\ UploadMounted
  /\ Commit("upload.onCancel", activeSection, handleCancel(Pending), Sub)

\* either of the two buttons of the success view
UplComplete ==
  /\ UploadMounted /\ upl.uploadStatus = "success"
  /\ Commit("upload.onComplete", activeSection, handleComplete(Pending), Sub)

\* A timer left behind by a discarded view runs: its setState calls find no
\* component, its nested setTimeout is scheduled and its toast is shown
OrphanTimer ==
  \E i \in 1..Len(orphans.timers) :
    LET rest == RemoveAt(orphans.timers, i) IN
    IF orphans.timers[i] = "uploaded"
      THEN Commit("orphanTimer", activeSection, Pending,
                  [Sub EXCEPT !.orphans = Append(rest, "processed")])
      ELSE \E drawn \in BOOLEAN :
             Commit("orphanTimer", activeSection, Pending,
                    [Sub EXCEPT !.orphans = rest,
                                !.toast = IF drawn THEN "toast.success"
                                                   ELSE "toast.error"])

----------------------------------------------------------------------------
(* Lookup actions *)

LkTypeDocument(inputs) ==
  /\ LookupMounted /\ lk.lookupState = "initial"
  /\ \E v \in inputs :
       Commit("type", activeSection, Pending,
              [Sub EXCEPT !.lk.form.documentNumber = v])

LkTypeDate(inputs) ==
  /\ LookupMounted /\ lk.lookupState = "initial"
  /\ \E v \in inputs :
       Commit("type", activeSection, Pending,
              [Sub EXCEPT !.lk.form.dateOfBirth = v])

\* onCheckedChange of the consent Checkbox
LkCheckConsent ==
  /\ LookupMounted /\ lk.lookupState = "initial"
  /\ Commit("check", activeSection, Pending,
            [Sub EXCEPT !.lk.form.consentCheck = ~lk.form.consentCheck])

\* verificationForm.handleSubmit(handleVerificationSubmit)
LkSubmit(maxOrphans) ==
  /\ LookupMounted /\ lk.lookupState = "initial"
  /\ Len(orphans.timers) < maxOrphans
  /\ IF verificationSchema(lk.form)
       THEN Commit("handleVerificationSubmit", activeSection, Pending,
                   [Sub EXCEPT !.lk = simulateApiCall(lk, lk.form)])
       ELSE Commit("rejected", activeSection, Pending, Sub)

\* the progress interval fires; it is cleared when the 3000 ms are over
LkTick ==
  /\ LookupMounted /\ lk.pending # <<>>
  /\ lk.loadingProgress < progressTick(lk.loadingProgress)
  /\ lk.loadingProgress < 10 * (ApiDelayMs \div ProgressIntervalMs)
  /\ Commit("progressTick", activeSection, Pending,
            [Sub EXCEPT !.lk.loadingProgress = progressTick(@)])

\* the 3000 ms of a pending call are over
LkResolve ==
  /\ LookupMounted /\ lk.pending # <<>>
  /\ \E isSuccessful \in BOOLEAN :
       Commit("apiResolved", activeSection, Pending,
              [Sub EXCEPT !.lk = apiResolved([lk EXCEPT !.pending = Tail(@)],
                                             Head(lk.pending), isSuccessful)])

LkTryAgain ==
  /\ LookupMounted /\ lk.lookupState = "error"
  /\ Commit("handleTryAgain", activeSection, Pending,
            [Sub EXCEPT !.lk = handleTryAgain(lk)])

\* "Cancelar" of the footer and of the error view
LkCancel ==
  /\ LookupMounted
  /\ Commit("handleCancelWithReset", activeSection, handleCancel(Pending),
            [Sub EXCEPT !.lk = handleCancelWithReset(lk)])

\* the edit grid is mounted, or unmounted, with its inputs
LkToggleEdit ==
  /\ LookupMounted /\ lk.lookupState = "success" /\ lk.taxData
  /\ Commit("setEditMode", activeSection, Pending,
            [Sub EXCEPT !.lk.editMode = ~lk.editMode, !.lk.edited = {}])

\* the user types into an input of the edit grid that is not disabled
LkEditField(keys) ==
  /\ LookupMounted /\ lk.lookupState = "success" /\ lk.taxData /\ lk.editMode
  /\ \E key \in keys :
       /\ ~disabled(key)
       /\ Commit("edit", activeSection, Pending,
                 [Sub EXCEPT !.lk.edited = @ \cup {key}])

LkUpdate ==
  /\ LookupMounted /\ lk.lookupState = "success" /\ lk.taxData /\ lk.editMode
  /\ Commit("handleTaxDataUpdate", activeSection, Pending,
            [Sub EXCEPT !.lk = handleTaxDataUpdate(lk)])

LkComplete ==
  /\ LookupMounted /\ lk.lookupState = "success" /\ lk.taxData
  /\ Commit("lookup.onComplete", activeSection, handleComplete(Pending), Sub)

----------------------------------------------------------------------------
(* What the user types and picks.  The whole application is explored with  *)
(* the values of the end-to-end scenario; the manual form on its own with  *)
(* values its schemas reject, too.                                         *)

MaxOrphans     == 1
MaxMessages    == 5
MaxAttachments == 1
MaxRetries     == 1

FormChoices     == {"modelo100", "modelo303"}
NifInputs       == {"12345678A", "123456789"}
SalaryInputs    == {"30000", "abc"}
IvaInputs       == {"100", "99.5", "abc"}
DonationsInputs == {"100", ""}
ChatInputs      == {"", " ", "hola", "Listo."}
UploadFiles     == {"renta.pdf", "foto.png", "notas.txt"}
DocumentInputs  == {"12345678A", "x1234567l", "123456789"}
DateInputs      == {"1990-05-15", "1990-13-45"}
EditKeys        == {"address", "email", "fullName"}

ManualNext ==
  \/ ManTypeNif(NifInputs)
  \/ ManTypeRest(BOOLEAN)
  \/ ManTypeSalary(SalaryInputs)
  \/ ManTypeIva(IvaInputs)
  \/ ManTypeDonations(DonationsInputs)
  \/ ManTabClick
  \/ ManBack
  \/ ManSubmitPersonal
  \/ ManSubmitIncome
  \/ ManSubmitDeductions
  \/ ManCancel

ManualInApp ==
  \/ ManTypeNif({"12345678A"})
  \/ ManTypeRest({TRUE})
  \/ ManTypeSalary({"30000"})
  \/ ManTypeDonations({"100"})
  \/ ManTabClick
  \/ ManBack
  \/ ManSubmitPersonal
  \/ ManSubmitIncome
  \/ ManSubmitDeductions
  \/ ManCancel

ChatInApp ==
  \/ ChatType({"hola", "listo"})
  \/ ChatSendClick(MaxMessages)
  \/ ChatEnter(MaxMessages)
  \/ ChatSuggested(MaxMessages)
  \/ ChatTimer
  \/ ChatComplete

ChatNext ==
  \/ ChatType(ChatInputs)
  \/ ChatAttach(MaxAttachments)
  \/ ChatSendClick(MaxMessages)
  \/ ChatEnter(MaxMessages)
  \/ ChatSuggested(MaxMessages)
  \/ ChatTimer
  \/ ChatComplete

UploadNext ==
  \/ UplDrop(UploadFiles)
  \/ UplUpload(MaxOrphans)
  \/ UplRetry(MaxRetries, MaxOrphans)
  \/ UplTick
  \/ UplTimer
  \/ UplRemove
  \/ UplCancel
  \/ UplComplete

LookupNext ==
  \/ LkTypeDocument(DocumentInputs)
  \/ LkTypeDate(DateInputs)
  \/ LkCheckConsent
  \/ LkSubmit(MaxOrphans)
  \/ LkTick
  \/ LkResolve
  \/ LkTryAgain
  \/ LkCancel
  \/ LkToggleEdit
  \/ LkEditField(EditKeys)
  \/ LkUpdate
  \/ LkComplete

InitApp ==
  /\ variant \in Variants
  /\ activeSection = "form"
  /\ activeStep = "select-type"
  /\ selectedForm = Null
  /\ selectedMethod = Null
  /\ progress = StepProgress("select-type")
  /\ localSelectedForm = Null
  /\ localSelectedMethod = Null
  /\ showAiChat = FALSE
  /\ showManualForm = FALSE
  /\ showUploadForm = FALSE
  /\ showIdLookup = FALSE
  /\ man = ManInit
  /\ chat = ChatInit
  /\ upl = UplInit
  /\ lk = LkInit
  /\ ev = "mount"
  /\ calls = <<>>
  /\ revoked = <<>>
  /\ prevStep = "select-type"
  /\ completed = FALSE
  /\ orphans = NoOrphans

Init == InitApp /\ mrg = MergeIdle /\ sheet = SheetIdle

Next ==
  \/ SetActiveSection
  \/ WizardNext
  \/ WizardPrevious
  \/ FormTypeSelect(FormChoices)
  \/ MethodSelect
  \/ Continue
  \/ BackToFormTypes
  \/ SelectorPrevious
  \/ ManualInApp
  \/ ChatInApp
  \/ UploadNext
  \/ LookupNext

Spec == Init /\ [][Next]_vars

\* A strategy on its own: the selector has just mounted it on `methodId`
MountedOn(methodId) ==
  /\ variant \in Variants
  /\ activeSection = "form"
  /\ \E formId \in FormChoices :
       IF variant = "local"
         THEN /\ activeStep = "select-method" /\ prevStep = "select-method"
              /\ selectedForm = Null /\ selectedMethod = Null
              /\ localSelectedForm = formId /\ localSelectedMethod = methodId
              /\ calls = <<>>
         ELSE /\ activeStep = "fill-form" /\ prevStep = "select-method"
              /\ selectedForm = formId /\ selectedMethod = methodId
              /\ localSelectedForm = Null /\ localSelectedMethod = Null
              /\ calls = <<"onMethodSelect", "handleNextStep">>
  /\ progress = StepProgress(activeStep)
  /\ showAiChat = (methodId = "ai")
  /\ showManualForm = (methodId = "manual")
  /\ showUploadForm = (methodId = "upload")
  /\ showIdLookup = (methodId = "lookup")
  /\ man = IF methodId = "manual" THEN ManMount(FormTypeProp) ELSE ManInit
  /\ chat = ChatInit
  /\ upl = UplInit
  /\ lk = LkInit
  /\ ev = "handleMethodSelect"
  /\ revoked = <<>>
  /\ completed = FALSE
  /\ mrg = MergeIdle
  /\ sheet = SheetIdle

InitStrategy(methodId) == MountedOn(methodId) /\ orphans = NoOrphans

InitManual == InitStrategy("manual")

SpecManual == InitManual /\ [][ManualNext]_vars

InitMerge ==
  /\ InitApp
  /\ \E target \in NestedObjects, source \in NestedObjects :
       mrg = [MergeIdle EXCEPT !.target = target, !.source = source]
  /\ sheet = SheetIdle

SpecMerge == InitMerge /\ [][MergeCall]_vars

\* One tab of the manual form of the per-form-type schemas, for each form
\* type of the field table
FieldTableTypes == {"modelo100", "modelo303", "modelo130", "modelo714"}
SheetInputs     == {"100", "abc"}

InitFields ==
  /\ InitApp /\ variant = "lifted"
  /\ mrg = MergeIdle
  /\ \E formType \in FieldTableTypes, tab \in {"income", "deductions"} :
       sheet = SheetMount(formType, tab)

FieldsNext == SheetType(SheetInputs) \/ SheetSubmit

SpecFields == InitFields /\ [][FieldsNext]_vars

\* The upload and the lookup on their own, the timers they leave behind
\* at their unmount followed
InitCancel ==
  /\ MountedOn("upload") \/ MountedOn("lookup")
  /\ orphans = [NoOrphans EXCEPT !.watched = TRUE]

CancelNext ==
  \/ UploadNext
  \/ LookupNext
  \/ OrphanTimer

SpecCancel == InitCancel /\ [][CancelNext]_vars

\* The three strategies with simulated operations, each on its own, with
\* every pending timer of a mounted strategy firing in the end
InitTimers ==
  InitStrategy("upload") \/ InitStrategy("lookup") \/ InitStrategy("ai")

TimersNext ==
  \/ UploadNext
  \/ LookupNext
  \/ ChatType({"hola"})
  \/ ChatSendClick(MaxMessages)
  \/ ChatEnter(MaxMessages)
  \/ ChatSuggested(MaxMessages)
  \/ ChatTimer

SpecTimers ==
  /\ InitTimers /\ [][TimersNext]_vars
  /\ WF_vars(UplTimer) /\ WF_vars(LkResolve) /\ WF_vars(ChatTimer)

InitChat == InitStrategy("ai")

SpecChat == InitChat /\ [][ChatNext]_vars

----------------------------------------------------------------------------
(* Properties *)

WasCalled(f) == \E k \in 1..Len(calls) : calls[k] = f

CountCalls(f) == Cardinality({k \in 1..Len(calls) : calls[k] = f})

ActiveViews ==
  {m \in formMethods :
     \/ (m = "ai" /\ showAiChat)     \/ (m = "manual" /\ showManualForm)
     \/ (m = "upload" /\ showUploadForm) \/ (m = "lookup" /\ showIdLookup)}

AllTabs == {Tabs[i] : i \in 1..Len(Tabs)}

\* C1: with "ai" selected, continue() in phase 2 does not advance the
\* wizard; the wizard leaves the method-selection step with "ai" selected
\* only in a step in which the chat has called onComplete; and the chat's
\* completion does call onComplete and advances the wizard.
C1_ChatCompletionAdvances ==
  [][ /\ (ev' = "handleContinue" /\ Step = "form-method" /\ SelMethod = "ai")
           => activeStep' = activeStep
      /\ (activeStep = "select-method" /\ SelMethod' = "ai"
            /\ StepIndex(activeStep') > StepIndex("select-method"))
           => (ev' = "chat.handleComplete" /\ WasCalled("onComplete")')
      /\ (ev' = "chat.handleComplete")
           => /\ WasCalled("onComplete")'
              /\ StepIndex(activeStep') = StepIndex(activeStep) + 1
    ]_vars

\* C2: in the chat the completion button is shown only when a user message
\* containing a done phrase has been answered, and pressing it sets the
\* chat's progress to 100 and calls onComplete.
C2_CompletionAffordance ==
  /\ (ChatMounted /\ chat.isCompleted /\ ~chat.isLoading)
       => \E i, j \in 1..Len(chat.messages) :
            /\ i < j
            /\ chat.messages[i].role = "user"
            /\ CompletionIntent(chat.messages[i].content)
            /\ chat.messages[j].role = "assistant"
  /\ (ev = "chat.handleComplete")
       => chat.progress = HalfPercent(100) /\ WasCalled("onComplete")

\* C3: in the manual form the income tab is active only after a personal
\* submit that passed validation, the deductions tab only after an income
\* submit that passed validation, and onComplete is called only when all
\* three sections have been submitted valid.
C3_TabsGatedByValidation ==
  ManualMounted =>
    /\ man.activeTab = "income" => "personal" \in man.submitted
    /\ man.activeTab = "deductions" => "income" \in man.submitted
    /\ ev = "handleDeductionsSubmit" => man.submitted = AllTabs

Scenario == << <<"personal", "12345678A">>, <<"income", "30000">>,
               <<"deductions", "100">> >>

IsPrefix(a, b) == Len(a) <= Len(b) /\ a = SubSeq(b, 1, Len(a))

\* the manual form of Modelo 100 has seen, since it was mounted, nothing but
\* typing and the submits of the scenario, in order
InScenario ==
  /\ ManualMounted /\ SelForm = "modelo100"
  /\ man.trace.straight /\ IsPrefix(man.trace.log, Scenario)

\* C4: along the scenario (Modelo 100, manual, personal submit with nif
\* 12345678A, income submit with 30000, deductions submit with 100) the
\* personal submit makes income the active tab, the income submit makes
\* deductions the active tab, onComplete is called exactly once by the
\* deductions submit and by no step before it.
C4_ScenarioCompletesOnce ==
  [][ InScenario' =>
        LET before == Len(man.trace.log)
            after  == Len(man'.trace.log) IN
        /\ (before = 0 /\ after = 1) => man'.activeTab = "income"
        /\ (before = 1 /\ after = 2) => man'.activeTab = "deductions"
        /\ IF ManualMounted /\ before = 2 /\ after = 3
             THEN ev' = "handleDeductionsSubmit" /\ CountCalls("onComplete")' = 1
             ELSE ~WasCalled("onComplete")'
    ]_vars

C4_Witness ==
  /\ InScenario /\ man.trace.log = Scenario
  /\ ev = "handleDeductionsSubmit" /\ CountCalls("onComplete") = 1

\* C5 as stated: after handleNextStep from step i the wizard is on step i+1
\* (on step 5 when i = 5) and progress is round((i+2)/6*100), for i in 0..5.
C5_AdvanceAsStated ==
  WasCalled("handleNextStep") =>
    LET i == StepIndex(prevStep) IN
    /\ StepIndex(activeStep) = Min(i + 1, 5)
    /\ progress = MathRound((i + 2) * 100, 6)

\* C5, amended: after handleNextStep from step i in 0..4 the wizard is on
\* step i+1 and progress is round((i+2)/6*100); from step 5 it stays on
\* step 5 and progress stays 100.
C5_Advance ==
  WasCalled("handleNextStep") =>
    LET i == StepIndex(prevStep) IN
    IF i < 5
      THEN StepIndex(activeStep) = i + 1 /\ progress = MathRound((i + 2) * 100, 6)
      ELSE StepIndex(activeStep) = 5 /\ progress = 100

C5_Witness ==
  /\ WasCalled("handleNextStep")
  /\ prevStep = "generate" /\ activeStep = "generate" /\ progress = 100

\* C6: after handlePreviousStep from step i > 0 the wizard is on step i-1
\* and, the step-change effect having run, progress is round(i/6*100).
C6_Retreat ==
  (WasCalled("handlePreviousStep") /\ StepIndex(prevStep) > 0) =>
    LET i == StepIndex(prevStep) IN
    /\ StepIndex(activeStep) = i - 1
    /\ progress = MathRound(i * 100, 6)

C6_Witness ==
  /\ WasCalled("handlePreviousStep")
  /\ prevStep = "select-method" /\ activeStep = "select-type" /\ progress = 17

\* C7: in every settled state progress is an integer in 0..100 and equals
\* round((k+1)/6*100) for the index k of activeStep, however the step was
\* reached.
C7_ProgressOfStep ==
  /\ progress \in 0..100
  /\ progress = MathRound((StepIndex(activeStep) + 1) * 100, 6)

\* a step reached by the selector's setStep, not by advance() or retreat()
C7_Witness ==
  /\ ev = "handleContinue" /\ ~WasCalled("handleNextStep")
  /\ prevStep = "select-type" /\ activeStep = "select-method" /\ progress = 33

\* C8: in phase 2 with a selected method other than "ai", continue() leaves
\* the wizard and the selector in the state one call of onNext() from the
\* same state leaves them in, and calls nothing but that onNext().
C8_ContinueIsOnNext ==
  [][ (ev' = "handleContinue" /\ GridVisible /\ Step = "form-method"
         /\ Truthy(SelMethod) /\ SelMethod # "ai")
        => /\ <<wizardVars, selectorVars>>' =
                <<<<activeSection, onNext(Pending).activeStep, selectedForm,
                    selectedMethod, ProgressEffect(onNext(Pending))>>,
                  selectorVars>>
           /\ calls' = <<"onNext", "handleNextStep">>
    ]_vars

C8_Witness ==
  /\ ev = "handleContinue" /\ WasCalled("onNext")
  /\ Truthy(SelMethod) /\ SelMethod # "ai"
  /\ prevStep = "select-method" /\ activeStep = "fill-form"

\* C9: continue() changes nothing when no form type is selected in phase 1
\* or no method is selected in phase 2; in phase 1 with a form type selected
\* it moves the selector to phase 2, clears the method selection, leaves no
\* strategy view active and does not call onNext().
C9_ContinueGuarded ==
  [][ (ev' = "handleContinue" /\ GridVisible) =>
        /\ ( \/ (Step = "form-type" /\ ~Truthy(SelForm))
             \/ (Step = "form-method" /\ ~Truthy(SelMethod)) )
             => /\ UNCHANGED <<wizardVars, selectorVars, man, chat, upl, lk>>
                /\ calls' = <<>>
        /\ (Step = "form-type" /\ Truthy(SelForm))
             => /\ Step' = "form-method"
                /\ activeStep' = "select-method"
                /\ ~Truthy(SelMethod')
                /\ ActiveViews' = {}
                /\ SelForm' = SelForm
                /\ ~WasCalled("onNext")' /\ ~WasCalled("handleNextStep")'
    ]_vars

C9_Witness ==
  /\ ev = "handleContinue" /\ prevStep = "select-type"
  /\ activeStep = "select-method" /\ Truthy(SelForm) /\ ~Truthy(SelMethod)

\* C10: after handleMethodSelect(m) exactly one strategy view is active,
\* the view of m; in every state at most one strategy view is active.
C10_OneView ==
  /\ Cardinality(ActiveViews) <= 1
  /\ ev = "handleMethodSelect" => ActiveViews = {SelMethod}

C10_Witness ==
  /\ ev = "handleMethodSelect" /\ SelMethod = "upload" /\ ActiveViews = {"upload"}

ReplyTimers(c) == {i \in 1..Len(c.timers) : c.timers[i].kind = "reply"}

\* C11: after cancel() on the selector no method is selected, none of the
\* four strategy views is active and the method grid is displayed again.
C11_CancelShowsMethodGrid ==
  WasCalled("onCancel") =>
    /\ ~Truthy(SelMethod)
    /\ ActiveViews = {}
    /\ GridVisible /\ Step = "form-method"

\* C12: in a chat session at most one assistant reply is pending at any
\* time, and no send is started while a reply is pending.
C12_OneReplyPending ==
  [][ ChatMounted' =>
        /\ Cardinality(ReplyTimers(chat')) <= 1
        /\ (ChatMounted /\ ReplyTimers(chat) # {})
             => Len(chat'.messages) <= Len(chat.messages) + 1
    ]_vars

\* C13: retry() adds one to the retry counter and starts a new upload, and
\* the attempt started by a retry is resolved with the degraded success
\* rate of 70 percent, not with the 90 percent of the first attempt.
C13_RetryDegraded ==
  [][ /\ (ev' = "handleRetry")
           => /\ upl'.retryCount = upl.retryCount + 1
              /\ upl'.uploadStatus = "uploading"
      /\ (ev' = "processedTimer" /\ upl.retryCount >= 1)
           => upl'.successRate = 70
    ]_vars

\* C17: removeFile() resets file, status, extracted data and error to their
\* idle values and calls the parent's onCancel twice.
C17_RemoveCancelsTwice ==
  [][ (ev' = "handleRemoveFile") =>
        /\ upl'.file = Null /\ upl'.uploadStatus = "idle"
        /\ ~upl'.extractedData /\ ~upl'.processingError
        /\ CountCalls("onCancel")' = 2 ]_vars

\* C14: every preview URL created for a selected file is revoked exactly
\* once: it is revoked in the step in which the file is removed or replaced
\* or the upload view goes away (never leaked), and no URL is revoked twice.
C14_RevokedExactlyOnce ==
  [][ /\ \A i, j \in 1..Len(revoked') : revoked'[i] = revoked'[j] => i = j
      /\ \A i \in 1..Len(revoked') :
            revoked'[i] = Preview(upl) /\ Preview(upl') # Preview(upl)
      /\ (UploadMounted /\ Preview(upl) # <<>> /\ Preview(upl') # Preview(upl))
           => \E i \in 1..Len(revoked') : revoked'[i] = Preview(upl)
    ]_vars

\* C15: uploadStatus changes only idle -> uploading -> processing ->
\* success or error, error -> uploading by a retry, and any status -> idle
\* when the file is removed or replaced (or the view goes away); no upload
\* is started while one is uploading or processing.
C15_UploadStatusMachine ==
  [][ UploadMounted =>
        LET old == upl.uploadStatus
            new == upl'.uploadStatus IN
        /\ \/ new = old
           \/ <<old, new>> \in {<<"idle", "uploading">>,
                                <<"uploading", "processing">>,
                                <<"processing", "success">>,
                                <<"processing", "error">>}
           \/ old = "error" /\ new = "uploading" /\ ev' = "handleRetry"
           \/ new = "idle" /\ (ev' \in {"handleRemoveFile", "onDrop"}
                                 \/ ~UploadMounted')
        /\ (ev' \in {"handleUpload", "handleRetry"})
             => old \notin {"uploading", "processing"}
    ]_vars

\* a retry has taken the upload from error back to uploading
C15_Witness ==
  UploadMounted /\ ev = "handleRetry" /\ upl.uploadStatus = "uploading"
    /\ upl.retryCount = 1

\* C16: the upload calls the parent's onComplete only from the user's
\* confirmation while uploadStatus is success; no timer calls it.
C16_CompleteOnlyConfirmed ==
  [][ (UploadMounted /\ WasCalled("onComplete")') =>
         ev' = "upload.onComplete" /\ upl.uploadStatus = "success"
    ]_vars

\* the confirmation was pressed on a successful upload
C16_Witness ==
  ev = "upload.onComplete" /\ WasCalled("onComplete") /\ WasCalled("onNext")

LockedKeys == {"documentNumber", "dateOfBirth", "fullName"}

\* C18: lookupState changes only initial -> loading -> success or error and
\* back to initial by tryAgain or cancel (or when the view goes away);
\* loading is entered only by a submit whose document number matches the
\* DNI or NIE pattern, whose birth date parses and whose consent box is
\* checked, and no second lookup starts while one is loading.
C18_LookupStateMachine ==
  [][ LookupMounted =>
        LET old == lk.lookupState
            new == lk'.lookupState
            doc == Chars(lk.form.documentNumber) IN
        /\ \/ new = old
           \/ /\ old = "initial" /\ new = "loading"
              /\ ev' = "handleVerificationSubmit"
              /\ dniRegex(doc) \/ nieRegex(doc)
              /\ DateParses(Chars(lk.form.dateOfBirth))
              /\ lk.form.consentCheck
           \/ old = "loading" /\ new \in {"success", "error"}
           \/ /\ new = "initial"
              /\ \/ old = "error" /\ ev' = "handleTryAgain"
                 \/ ev' = "handleCancelWithReset"
                 \/ ~LookupMounted'
        /\ (ev' = "handleVerificationSubmit") => old = "initial"
        /\ Len(lk'.pending) <= 1
    ]_vars

\* a lookup was started from a valid lowercase NIE
C18_Witness ==
  /\ LookupMounted /\ ev = "handleVerificationSubmit"
  /\ lk.lookupState = "loading" /\ lk.form.documentNumber = "x1234567l"

C20_ResetAndNoStaleData ==
  /\ (ev \in {"handleTryAgain", "handleCancelWithReset"}) =>
       /\ lk.lookupState = "initial"
       /\ ~lk.taxData /\ lk.personalInfo = NoPersonalInfo
       /\ ~lk.errorDetails
       /\ lk.loadingProgress = 0
       /\ lk.form = FormDefaults
  /\ lk.taxData => lk.lookupState = "success"

\* tryAgain() has just taken a failed lookup back to the empty form
C20_Witness ==
  LookupMounted /\ ev = "handleTryAgain" /\ lk.lookupState = "initial"

\* C21: a submit of a manual-form tab whose data fails validation is
\* rejected: the submit handler does not run, the active tab and the stored
\* section data are unchanged and onComplete is not called.
C21_InvalidSubmitRejected ==
  [][ ManualMounted =>
        /\ (ev' = "handlePersonalSubmit") => personalInfoSchema(man.personal)
        /\ (ev' = "handleIncomeSubmit") => incomeSchema(man.income)
        /\ (ev' = "handleDeductionsSubmit") => deductionsSchema(man.deductions)
        /\ (ev' = "rejected") =>
             /\ ManualMounted'
             /\ man'.activeTab = man.activeTab
             /\ man'.formData = man.formData
             /\ man'.submitted = man.submitted
             /\ ~WasCalled("onComplete")'
    ]_vars

\* an income submit was rejected: the income field holds no number
C21_Witness ==
  /\ ManualMounted /\ ev = "rejected" /\ man.activeTab = "income"
  /\ ~incomeSchema(man.income)

C29_VatDue ==
  ManualMounted =>
    IF variant = "lifted" /\ FormTypeProp = "modelo303"
      THEN LET out == parseFloat(Chars(man.income.ivaRepercutido))
               inp == parseFloat(Chars(man.income.ivaSoportado))
               due == IF out.val - inp.val > 0 THEN out.val - inp.val ELSE 0 IN
           /\ ~out.nan /\ ~inp.nan
           /\ man.auto # <<>> /\ man.auto[1] # "-"
           /\ parseFloat(man.auto) = Num(due)
      ELSE man.auto = <<>>

\* the input VAT exceeds the output VAT and the derived value is 0.00
C29_Witness ==
  /\ ManualMounted /\ variant = "lifted" /\ FormTypeProp = "modelo303"
  /\ man.income.ivaRepercutido = "99.5" /\ man.income.ivaSoportado = "100"
  /\ man.auto = <<"0", ".", "0", "0">>

\* C22: within one chat session the transcript is append-only: every
\* step leaves the previous message list a prefix of the new one.
C22_TranscriptAppendOnly ==
  [][ (ChatMounted /\ ChatMounted') =>
        IsPrefix(chat.messages, chat'.messages) ]_vars

\* two user messages and two replies were appended to the greeting
C22_Witness ==
  /\ ChatMounted /\ ev = "replyTimer" /\ Len(chat.messages) = 5
  /\ chat.messages[1].content = "saludo" /\ chat.timers = <<>>

\* C23: the chat's progress never decreases during a chat session: it
\* ramps with the message count to 80, trickles up to at most 95, and once
\* the completion button has set it to 100 later messages do not lower it.
C23_ProgressMonotone ==
  [][ (ChatMounted /\ ChatMounted') =>
        /\ chat'.progress >= chat.progress
        /\ chat'.progress <= HalfPercent(95) \/ chat'.progress = HalfPercent(100)
    ]_vars

SendTimers(c) == SelectSeq(c.timers, LAMBDA t : t.kind = "send")

\* C24: sendMessage is a no-op when the text is empty or only whitespace
\* and there are no attachments: the transcript, the input, the loading
\* flag and the pending replies are unchanged.
C24_BlankSendIsNoOp ==
  [][ ChatMounted =>
        LET cl == IF ev' = "deferredSend" THEN Head(SendTimers(chat))
                                          ELSE Closure(chat) IN
        (/\ ev' \in {"handleSendMessage", "handleKeyDown", "deferredSend"}
         /\ IsBlank(Chars(cl.input)) /\ cl.attachments = 0)
          => /\ ChatMounted'
             /\ chat'.messages = chat.messages
             /\ chat'.input = chat.input
             /\ chat'.isLoading = chat.isLoading
             /\ SelectSeq(chat'.timers, LAMBDA t : t.kind = "reply")
                  = SelectSeq(chat.timers, LAMBDA t : t.kind = "reply")
    ]_vars

\* Enter was pressed on a whitespace-only input and nothing was sent
C24_Witness ==
  /\ ChatMounted /\ ev = "handleKeyDown" /\ chat.input = " "
  /\ chat.attachments = 0 /\ Len(chat.messages) = 1
  /\ ~chat.isLoading /\ chat.timers = <<>>

\* 'source wins on leaf conflict, recurse on nested objects'
RECURSIVE SourceWins(_, _)
SourceWins(target, source) ==
  Obj([key \in DOMAIN target.f \cup DOMAIN source.f |->
         IF key \notin DOMAIN source.f THEN target.f[key]
         ELSE IF key \in DOMAIN target.f /\ isObject(target.f[key])
                   /\ isObject(source.f[key])
           THEN SourceWins(target.f[key], source.f[key])
           ELSE source.f[key]])

\* C25: mergeDeep(target, source) keeps every key of target that source
\* lacks, holds for every key of source the source's value unless both
\* sides hold objects, where it holds their recursive merge (a leaf of
\* target under an object of source gives the source's object), and merging
\* the same source a second time changes nothing.
C25_MergeDeepSourceWins ==
  mrg.done =>
    /\ mrg.output = SourceWins(mrg.target, mrg.source)
    /\ mrg.again = mrg.output

\* the operations of the mounted strategy that are in flight
InFlight == Len(upl.timers) + Len(lk.pending)

\* C26: cancel, or removeFile, during an upload or a lookup in flight does
\* not cancel its timers: each of them is still scheduled once the view is
\* discarded, and the success or error notification of the operation is
\* shown by such a timer, after the cancel.
C26_CancelLeavesTimers ==
  [][/\ ev' \in {"upload.onCancel", "handleRemoveFile", "handleCancelWithReset"}
          => Len(orphans'.timers) = Len(orphans.timers) + InFlight
     /\ orphans'.toast # Null
          => /\ ev' = "orphanTimer"
             /\ Len(orphans'.timers) = Len(orphans.timers) - 1]_vars

C26_Witness ==
  /\ ev = "orphanTimer"
  /\ orphans.toast \in {"toast.success", "toast.error"}
  /\ ~UploadMounted /\ ~LookupMounted
  /\ upl = UplInit /\ lk = LkInit

\* C27: no failure is a dead end.  In every upload error state retry and
\* remove-file can be used, in every lookup error state try-again and the
\* return to the method selection can be used, and a simulated failure ends
\* in the error state: a finished operation leaves success or error, and
\* uploading, processing and loading are only held while a timer of the
\* operation is pending.
C27_NoDeadEnd ==
  /\ UploadMounted /\ upl.uploadStatus = "error"
       => /\ ENABLED UplRetry(upl.retryCount + 1, Len(orphans.timers) + 1)
          /\ ENABLED UplRemove
  /\ LookupMounted /\ lk.lookupState = "error"
       => ENABLED LkTryAgain /\ ENABLED LkCancel
  /\ ev = "processedTimer" => upl.uploadStatus \in {"success", "error"}
  /\ ev = "apiResolved" => lk.lookupState \in {"success", "error"}
  /\ UploadMounted /\ upl.uploadStatus \in {"uploading", "processing"}
       => upl.timers # <<>>
  /\ LookupMounted /\ lk.lookupState = "loading" => lk.pending # <<>>

C27_Witness ==
  /\ ev = "processedTimer"
  /\ UploadMounted /\ upl.uploadStatus = "error" /\ upl.processingError

\* C30: a file whose type is outside the whitelist (PDF, JPEG, PNG) only
\* surfaces a rejection message: the selected file, uploadStatus,
\* uploadProgress, the extracted data and the retry counter are as before,
\* no timer is started and no URL revoked, and no upload can be started
\* from the rejected file, which is never the selected one.
C30_RejectedDropOnlyReports ==
  [][/\ ev' = "onDropRejected"
          => /\ upl'.fileRejections # <<>>
             /\ [upl' EXCEPT !.fileRejections = <<>>]
                  = [upl EXCEPT !.fileRejections = <<>>]
             /\ revoked' = <<>>
             /\ ~(ENABLED UplUpload(Len(orphans.timers) + 1))'
     /\ upl'.file # Null
          => FileType(upl'.file) \in {"application/pdf", "image/jpeg", "image/png"}]_vars

C30_Witness ==
  /\ ev = "onDropRejected"
  /\ UploadMounted /\ upl.fileRejections = <<"notas.txt">>
  /\ upl.file = Null /\ upl.uploadStatus = "idle"

\* C31: clicking a suggested question sends that question: the deferred
\* send started by handleSuggestedQuestion appends a user message whose
\* content is the clicked question, whatever the input held before the
\* click.
C31_SuggestionIsSent ==
  [][(ChatMounted /\ ev' = "deferredSend")
       => /\ Len(chat'.messages) = Len(chat.messages) + 1
          /\ LET sent == chat'.messages[Len(chat'.messages)] IN
               sent.role = "user" /\ sent.content \in suggestedQuestions]_vars

\* C32: every started simulated operation resolves in the end while its
\* component stays mounted and timers fire: an upload in uploading reaches
\* processing and then success or error, a lookup in loading reaches
\* success or error, and after a chat send the assistant's reply is
\* appended and the loading flag cleared.
C32_OperationsResolve ==
  /\ (UploadMounted /\ upl.uploadStatus = "uploading")
       ~> (~UploadMounted \/ upl.uploadStatus = "processing")
  /\ (UploadMounted /\ upl.uploadStatus = "processing")
       ~> (~UploadMounted \/ upl.uploadStatus \in {"success", "error"})
  /\ (LookupMounted /\ lk.lookupState = "loading")
       ~> (~LookupMounted \/ lk.lookupState \in {"success", "error"})
  /\ (ChatMounted /\ chat.isLoading)
       ~> \/ ~ChatMounted
          \/ /\ ~chat.isLoading
             /\ chat.messages[Len(chat.messages)].role = "assistant"

C32_Witness ==
  /\ ev = "processedTimer"
  /\ UploadMounted /\ upl.uploadStatus = "success" /\ upl.timers = <<>>

\* C33: one strategy session advances the wizard by at most one step: once
\* the selector has handled a strategy's onComplete, that same strategy
\* instance does not advance the wizard again.
C33_OneAdvancePerSession ==
  [][completed => ~(WasCalled("onComplete")' /\ activeStep' # activeStep)]_vars

\* C34: cancel() on the selector, the cancel raised by a strategy's
\* onCancel included, never changes the wizard's activeStep or progress,
\* from any reachable state, those reached through the wizard's own
\* Previous and Next buttons while a strategy view was shown included.
C34_CancelKeepsWizard ==
  [][WasCalled("onCancel")'
       => activeStep' = activeStep /\ progress' = progress]_vars

\* C35: whenever the wizard's activeStep is fill-form or a later step, its
\* selectedForm is one of the catalog's form types and its selectedMethod
\* one of the four methods, neither null nor empty.
C35_SelectionsSetFromFillForm ==
  StepIndex(activeStep) >= StepIndex("fill-form")
    => selectedForm \in Catalog /\ selectedMethod \in formMethods

\* C36: for each form type of the field table, the fields a tab renders are
\* keys of the schema of that tab's form, so what the user typed into each
\* of them is in the section a submit of the tab has stored
C36_RenderedFieldsInSchema ==
  SheetMounted =>
    LET rendered == fieldDefinitions(sheet.formType)[sheet.tab] IN
    /\ rendered \subseteq SheetShape(sheet.formType, sheet.tab)
    /\ sheet.ev = "submit" =>
         \A name \in rendered :
           name \in DOMAIN sheet.stored /\ sheet.stored[name] = sheet.values[name]

\* C37: in the chat transcript the message ids are pairwise distinct and
\* strictly increasing in transcript order, whatever the interleaving of
\* sends and reply timers
C37_MessageIdsIncrease ==
  ChatMounted =>
    \A i \in 1..Len(chat.messages), j \in 1..Len(chat.messages) :
      i < j => chat.messages[i].id < chat.messages[j].id

====
